---- MODULE Spec2Model ----
(***************************************************************************)
(* Activity dashboard of gastown (internal/tui/activity/model.go).         *)
(*                                                                         *)
(* The model follows the bubbletea Model: the agent collection, the seven  *)
(* aggregate counters, the poll loop (poll command -> sessionsMsg ->       *)
(* pollTick -> pollMsg -> poll command) and the merge updateAgents with    *)
(* the pane parsers it calls.  Strings are TLA+ strings and the Go string  *)
(* functions are computed character by character.  Instants and durations  *)
(* are whole seconds.                                                      *)
(***************************************************************************)
EXTENDS Integers, Sequences, FiniteSets, TLC

VARIABLES
  agents,            \* Model.agents: sequence of AgentLight records
  rigs,              \* Model.rigs: ordered rig names
  counts,            \* Model.totalAgents and the seven counters
  townRoot,          \* Model.townRoot
  recentToolEvents,  \* Model.recentToolEvents
  clock,             \* last reading of time.Now()
  pollCmds,          \* poll commands (pollSessions) not yet answered
  pollTicks,         \* poll timers (pollTick) armed and not yet fired
  lastSessions,      \* the sessionsMsg.sessions of the last merge
  parsed,            \* per agent: the fields as parsePaneContent left them
  removed,           \* session names whose record the last merge dropped
  blinkOn,           \* Model.blinkOn
  tickNum,           \* Model.tickNum
  blinkTicks,        \* blink timers (blinkTick) armed and not yet fired
  width,             \* Model.width
  height,            \* Model.height
  mouseX,            \* Model.mouseX
  mouseY,            \* Model.mouseY
  hoveredAgent,      \* Model.hoveredAgent: session name of the record, "" = nil
  lastClickAgent,    \* Model.lastClickAgent: session name of the record, "" = nil
  lastClickTime,     \* Model.lastClickTime
  flashMessage,      \* Model.flashMessage
  flashTime,         \* Model.flashTime
  quit,              \* tea.Quit was returned: the program has ended
  lastMsg,           \* the type of the message that Update handled last
  pollErr,           \* whether list-sessions failed in the last poll
  repeated,          \* whether the last merge got the session list and the
                     \* clock reading of the merge before it
  eventLog,          \* the records of .events.jsonl that gt top emit appended
  emitErr,           \* the error that the last run of gt top emit returned
  emitArgs           \* the arguments of the last run of gt top emit

pollVars == <<agents, rigs, counts, townRoot, recentToolEvents, lastSessions,
              parsed, removed, pollErr, repeated>>

loopVars == <<pollCmds, pollTicks>>

blinkVars == <<blinkOn, tickNum, blinkTicks>>

pointerVars == <<mouseX, mouseY, hoveredAgent, lastClickAgent, lastClickTime,
                 flashMessage, flashTime>>

sizeVars == <<width, height>>

emitVars == <<eventLog, emitErr, emitArgs>>

vars == <<pollVars, loopVars, blinkVars, pointerVars, sizeVars, clock, quit, lastMsg,
          emitVars>>

----------------------------------------------------------------------------
(* Bounds of the model *)

MaxClock == 2       \* last instant of the session-list scenarios
MaxTick == 2        \* blink messages that the scenarios follow
MaxLog == 2         \* records that the emit scenarios append

----------------------------------------------------------------------------
(* Go strings package, on TLA+ strings (indices are 1-based, 0 = absent) *)

CharAt(s, i) == SubSeq(s, i, i)

HasPrefix(s, p) == Len(p) <= Len(s) /\ SubSeq(s, 1, Len(p)) = p

HasSuffix(s, p) == Len(p) <= Len(s) /\ SubSeq(s, Len(s) - Len(p) + 1, Len(s)) = p

\* the first position at or after i where sub occurs in s
IndexFrom(s, sub, i) ==
  IF \E j \in i..(Len(s) - Len(sub) + 1) : SubSeq(s, j, j + Len(sub) - 1) = sub
  THEN CHOOSE j \in i..(Len(s) - Len(sub) + 1) :
         /\ SubSeq(s, j, j + Len(sub) - 1) = sub
         /\ \A k \in i..(j - 1) : SubSeq(s, k, k + Len(sub) - 1) # sub
  ELSE 0

Index(s, sub) == IndexFrom(s, sub, 1)

\* the last position at or before i where sub occurs in s
LastIndexFrom(s, sub, i) ==
  IF \E j \in 1..i : SubSeq(s, j, j + Len(sub) - 1) = sub
  THEN CHOOSE j \in 1..i :
         /\ SubSeq(s, j, j + Len(sub) - 1) = sub
         /\ \A k \in (j + 1)..i : SubSeq(s, k, k + Len(sub) - 1) # sub
  ELSE 0

LastIndex(s, sub) == LastIndexFrom(s, sub, Len(s) - Len(sub) + 1)

Contains(s, sub) == Index(s, sub) > 0

ContainsRune(chars, c) == Index(chars, c) > 0

RECURSIVE TrimLeft(_, _)
TrimLeft(s, cutset) ==
  IF Len(s) > 0 /\ ContainsRune(cutset, CharAt(s, 1))
  THEN TrimLeft(SubSeq(s, 2, Len(s)), cutset)
  ELSE s

RECURSIVE TrimRight(_, _)
TrimRight(s, cutset) ==
  IF Len(s) > 0 /\ ContainsRune(cutset, CharAt(s, Len(s)))
  THEN TrimRight(SubSeq(s, 1, Len(s) - 1), cutset)
  ELSE s

Trim(s, cutset) == TrimRight(TrimLeft(s, cutset), cutset)

WhiteSpace == " \t"

TrimSpace(s) == Trim(s, WhiteSpace)

TrimPrefix(s, p) == IF HasPrefix(s, p) THEN SubSeq(s, Len(p) + 1, Len(s)) ELSE s

TrimSuffix(s, p) == IF HasSuffix(s, p) THEN SubSeq(s, 1, Len(s) - Len(p)) ELSE s

UpperLetters == "ABCDEFGHIJKLMNOPQRSTUVWXYZ"
LowerLetters == "abcdefghijklmnopqrstuvwxyz"

LowerChar(c) ==
  LET i == Index(UpperLetters, c)
  IN  IF i > 0 THEN CharAt(LowerLetters, i) ELSE c

RECURSIVE ToLower(_)
ToLower(s) ==
  IF Len(s) = 0 THEN ""
  ELSE IF Len(s) = 1 THEN LowerChar(s)
  ELSE ToLower(SubSeq(s, 1, Len(s) \div 2))
         \o ToLower(SubSeq(s, Len(s) \div 2 + 1, Len(s)))

Digits == "0123456789"

IsDigit(c) == ContainsRune(Digits, c)

RECURSIVE DigitsValue(_, _, _)
DigitsValue(s, i, acc) ==
  IF i <= Len(s) /\ IsDigit(CharAt(s, i))
  THEN DigitsValue(s, i + 1, acc * 10 + (Index(Digits, CharAt(s, i)) - 1))
  ELSE acc

\* fmt.Sscanf(s, "%d", &n): leading blanks are skipped, the longest run of
\* digits is read and the rest of the input is left unread; no digit is an
\* error.  (A sign is not modelled.)
SscanfInt(s) ==
  LET t == TrimLeft(s, WhiteSpace)
  IN  IF Len(t) > 0 /\ IsDigit(CharAt(t, 1))
      THEN [ok |-> TRUE, n |-> DigitsValue(t, 1, 0)]
      ELSE [ok |-> FALSE, n |-> 0]

\* strings.SplitN(s, sep, 2)
SplitN2(s, sep) ==
  LET i == Index(s, sep)
  IN  IF i = 0 THEN <<s>>
      ELSE <<SubSeq(s, 1, i - 1), SubSeq(s, i + Len(sep), Len(s))>>

----------------------------------------------------------------------------
(* ActivityLevel (iota) and the thresholds of updateAgents, in seconds *)

LevelActive == 0
LevelRecent == 1
LevelWarm == 2
LevelCool == 3
LevelCold == 4
LevelRateLimited == 5
LevelHitLimit == 6
LevelWaitingForHuman == 7
LevelDead == 8

WaitDebounce == 5       \* 5*time.Second
ActiveWindow == 3       \* 3*time.Second
RecentWindow == 30      \* 30*time.Second
WarmWindow == 120       \* 2*time.Minute
CoolWindow == 300       \* 5*time.Minute
EventWindow == 15       \* 15*time.Second
StatusLimit == 200      \* truncateStatus
ContentWindow == 8      \* content lines examined from the bottom
RateLimitWindow == 3    \* lines examined for a temporary rate limit
ToolNameLimit == 20     \* largest offset of "(" in a tool descriptor
DoubleClickMs == 500    \* two presses on a record this close, in milliseconds
ZeroTime == -1          \* the zero time.Time, before every instant of the model

----------------------------------------------------------------------------
(* Runes of the source that a TLA+ string literal cannot hold are written  *)
(* with a code point of the private use area; every one is three bytes in  *)
(* UTF-8, like the rune it stands for.                                     *)

U2500 == ""   \* U+2500 box light horizontal
U2501 == ""   \* U+2501 box heavy horizontal
U2014 == ""   \* U+2014 em dash
U2550 == ""   \* U+2550 box double horizontal
U2022 == ""   \* U+2022 bullet
U2219 == ""   \* U+2219 bullet operator
U2027 == ""   \* U+2027 hyphenation point
U2514 == ""   \* U+2514 box up and right
U2502 == ""   \* U+2502 box light vertical
U251C == ""   \* U+251C box vertical and right
U276F == ""   \* U+276F prompt marker
U2733 == ""   \* U+2733 eight spoked asterisk
U280B == ""   \* U+280B braille
U2819 == ""   \* U+2819 braille
U2839 == ""   \* U+2839 braille
U2838 == ""   \* U+2838 braille
U283C == ""   \* U+283C braille
U2834 == ""   \* U+2834 braille
U2826 == ""   \* U+2826 braille
U2827 == ""   \* U+2827 braille
U2807 == ""   \* U+2807 braille
U280F == ""   \* U+280F braille
U287F == ""   \* U+287F braille
U2731 == ""   \* U+2731 heavy asterisk
U2503 == ""   \* U+2503 box heavy vertical
U2579 == ""   \* U+2579 box heavy up
U250C == ""   \* U+250C box down and right
U2510 == ""   \* U+2510 box down and left
U2518 == ""   \* U+2518 box up and left
U2551 == ""   \* U+2551 box double vertical
U2554 == ""   \* U+2554 box double down and right
U2557 == ""   \* U+2557 box double down and left
U255A == ""   \* U+255A box double up and right
U255D == ""   \* U+255D box double up and left
U2713 == ""   \* U+2713 check mark

----------------------------------------------------------------------------
(* Pane lines, listing lines and probe outputs that the scenarios use.    *)
(* What the parsers compute from one of these strings alone is tabulated   *)
(* once (the tables below); the scenarios use no other string.             *)

HitLine == "You've hit your limit · resets 2pm (America/Los_Angeles)"
RateLine == "API rate limit reached · resets in 5m"
WaitLine == "What do you want to do?"
ToolLine == "⏺ Bash(git status)"
GrepLine == (U2731 \o " Grep \"retry\" in pkg")
ShellLine == "$ go test ./..."
SessionLine == "You've used 95% of your session limit · resets 8pm (America/Los_Angeles)"
SessionLine80 == "You've used 80% of your session limit"
SessionLine0 == "You've used 0% of your session limit"
ContextLine == "Context left until auto-compact: 20%"
CompactingLine == (U2733 \o " Compacting conversation (12s · 2.1k tokens)")
CompactToolLine == "⏺ Compact(conversation)"
SignLine == (U2022 \o " OpenCode 1.1.60")
UsageLine == "45.2K  23% ($0.12)"
PermitLine == "Allow Bash: rm -rf /tmp?"
NoiseLine == "go: downloading golang.org/x/sys v0.30.0"
SpinLine == (U2733 \o " Thinking")
BarLine == "⏵⏵ bypass permissions on · fix parser · esc to interrupt"
RuleLine == "--------"

HeaderLine == "▣ Build · claude-opus-4.6 · 2m 17s"
SubLine == (U2514 \o " Read file.go")
PendingLine == "~ Preparing write..."
BrailleLine == (U280B \o " Explore Task")
FramedSubLine == (U2503 \o "  " \o U2514 \o " Read model.go")
FramedCmdLine == (U2503 \o "  $ make build 2>&1")

X10 == "xxxxxxxxxx"
X50 == (X10 \o X10 \o X10 \o X10 \o X10)

\* a permission prompt whose tool name, of 210 characters, is longer than
\* the limit of a text field
LongPermitLine == ("Allow " \o X50 \o X50 \o X50 \o X50 \o X10 \o ": rm -rf /tmp?")

KnownLines ==
  { "", HitLine, RateLine, WaitLine, ToolLine, GrepLine, ShellLine, SessionLine,
    SessionLine80, SessionLine0, ContextLine, CompactingLine, CompactToolLine,
    SignLine, UsageLine, PermitLine, NoiseLine, SpinLine, BarLine, RuleLine,
    LongPermitLine, HeaderLine, SubLine, PendingLine, BrailleLine, FramedSubLine,
    FramedCmdLine }

KnownListing ==
  { "gt-a|1", "gt-a|2", "gt-a|2|1", "gt-b|1", "gt-b|2", "main|1",
    "gt-r-witness|1", "gt-r-refinery|1", "gt-r-crew-bob|1", "gt-r-deacon-rex|1",
    "gt-r-toast|1", "gt-dog-rex|1", "hq-mayor|1", "hq-deacon|1" }

KnownEnv == {"", "GT_AGENT=opencode", "GT_AGENT=gemini"}

KnownNames ==
  { "gt-a", "gt-b", "gt-r-witness", "gt-r-refinery", "gt-r-crew-bob",
    "gt-r-deacon-rex", "gt-r-toast", "gt-dog-rex", "hq-mayor", "hq-deacon" }

----------------------------------------------------------------------------
(* Line classification of the primary ("claude") dialect *)

truncateStatus(s) ==
  IF Len(s) > StatusLimit THEN SubSeq(s, 1, StatusLimit - 3) \o "..." ELSE s

SeparatorRunes == (U2500 \o U2501 \o U2014 \o "-" \o U2550)

RECURSIVE AllIn(_, _)
AllIn(s, chars) ==
  Len(s) = 0 \/ (ContainsRune(chars, CharAt(s, 1)) /\ AllIn(SubSeq(s, 2, Len(s)), chars))

\* len(s) counts bytes: the box-drawing runes are 3 bytes each, "-" is one
ByteLenSeparator(s) ==
  LET F[i \in 0..Len(s)] ==
        IF i = 0 THEN 0
        ELSE F[i - 1] + (IF CharAt(s, i) = "-" THEN 1 ELSE 3)
  IN  F[Len(s)]

isSeparatorLine(s) ==
  IF ~AllIn(s, SeparatorRunes) THEN FALSE
  ELSE ByteLenSeparator(s) >= 4

isChromeLine(line) ==
  LET trimmed == TrimSpace(line)
  IN  IF trimmed = "" THEN TRUE
      ELSE IF HasPrefix(trimmed, U276F) THEN TRUE
      ELSE IF Contains(trimmed, "⏵") THEN TRUE
      ELSE IF \/ Contains(trimmed, "bypass permissions")
              \/ Contains(trimmed, "shift+tab to cycle")
              \/ Contains(trimmed, "esc to interrupt")
              \/ Contains(trimmed, "auto-accept") THEN TRUE
      ELSE isSeparatorLine(trimmed)

PermissionMarkers ==
  <<"bypass permissions on", "auto-accept edits on", "auto-accept all on">>

TaskNameCutset == (" \t·" \o U2022 \o U2219 \o U2027 \o "⋅" \o U2500 \o U2501 \o U2014 \o "-|/")

extractTaskName(line) ==
  LET trimmed == TrimSpace(line)
      escIdx  == Index(trimmed, "esc to interrupt")
      found   == {k \in 1..Len(PermissionMarkers) :
                    Contains(trimmed, PermissionMarkers[k])}
  IN  IF escIdx = 0 THEN ""
      ELSE IF found = {} THEN ""
      ELSE LET k == CHOOSE x \in found : \A y \in found : x <= y
               permEndIdx == Index(trimmed, PermissionMarkers[k])
                               + Len(PermissionMarkers[k])
           IN  IF permEndIdx >= escIdx THEN ""
               ELSE LET middle == SubSeq(trimmed, permEndIdx, escIdx - 1)
                    IN  IF Contains(middle, "shift+tab") THEN ""
                        ELSE LET m2 == Trim(middle, TaskNameCutset)
                             IN  IF m2 = "" THEN ""
                                 ELSE TrimSpace(TrimSuffix(m2, "(running)"))

TreeRunes == ("⎿" \o U2514 \o U2502 \o U251C \o U2500 \o " ")

\* a detection that reports every permission prompt without its tool
detectHumanWaitUnnamed(line) ==
  LET trimmed == TrimSpace(line)
      cleaned == TrimSpace(TrimLeft(trimmed, TreeRunes))
      lower   == ToLower(cleaned)
  IN  IF HasPrefix(cleaned, "Interrupted") THEN "interrupted"
      ELSE IF HasPrefix(cleaned, "Allow ") /\ Contains(cleaned, "?")
        THEN "permission prompt"
      ELSE IF \/ Contains(cleaned, "(Y)es")
              \/ Contains(cleaned, "(y/n)")
              \/ Contains(cleaned, "(Y/n)") THEN "confirmation prompt"
      ELSE IF HasPrefix(trimmed, "? ") /\ Len(trimmed) > 2 THEN "question"
      ELSE IF Contains(lower, "do you want to") \/ Contains(lower, "press enter")
        THEN "waiting for confirmation"
      ELSE ""

detectHumanWait(line) ==
  LET trimmed == TrimSpace(line)
      cleaned == TrimSpace(TrimLeft(trimmed, TreeRunes))
      lower   == ToLower(cleaned)
  IN  IF HasPrefix(cleaned, "Interrupted") THEN "interrupted"
      ELSE IF HasPrefix(cleaned, "Allow ") /\ Contains(cleaned, "?")
        THEN LET idx == Index(cleaned, ":")
             IN  IF idx > 7
                 THEN "permission: " \o SubSeq(cleaned, 7, idx - 1)
                 ELSE "permission prompt"
      ELSE IF \/ Contains(cleaned, "(Y)es")
              \/ Contains(cleaned, "(y/n)")
              \/ Contains(cleaned, "(Y/n)") THEN "confirmation prompt"
      ELSE IF HasPrefix(trimmed, "? ") /\ Len(trimmed) > 2 THEN "question"
      ELSE IF Contains(lower, "do you want to") \/ Contains(lower, "press enter")
        THEN "waiting for confirmation"
      ELSE ""

extractParenStats(line) ==
  LET start == LastIndex(line, "(")
      end   == LastIndex(line, ")")
  IN  IF start = 0 \/ end <= start + 1 THEN ""
      ELSE LET inner == TrimSpace(SubSeq(line, start + 1, end - 1))
           IN  IF Contains(inner, "·") THEN inner ELSE ""

StatusSpinners == (U280B \o U2819 \o U2839 \o U2838 \o U283C \o U2834 \o U2826 \o U2827 \o U2807 \o U280F \o "⣾⣽⣻⢿" \o U287F \o "⣟⣯⣷" \o U2733)

\* the first position at or after i of a rune of chars in s
FirstRuneIn(s, chars, i) ==
  IF \E j \in i..Len(s) : ContainsRune(chars, CharAt(s, j))
  THEN CHOOSE j \in i..Len(s) :
         /\ ContainsRune(chars, CharAt(s, j))
         /\ \A k \in i..(j - 1) : ~ContainsRune(chars, CharAt(s, k))
  ELSE 0

extractStatusLine(line) ==
  LET cleaned == TrimSpace(TrimLeft(TrimSpace(line), TreeRunes))
      stats   == extractParenStats(cleaned)
      idx     == FirstRuneIn(cleaned, StatusSpinners, 1)
  IN  IF cleaned = "" THEN ""
      ELSE IF stats # ""
        THEN IF Contains(cleaned, "Compacting") \/ Contains(cleaned, "compacting")
             THEN "COMPACTING · " \o stats
             ELSE stats
      ELSE IF idx > 0
        THEN LET rest == TrimSpace(SubSeq(cleaned, idx + 1, Len(cleaned)))
             IN  IF rest # "" THEN truncateStatus(rest) ELSE "working"
      ELSE ""

extractLimitResetInfo(line) ==
  LET idx == Index(ToLower(line), "resets ")
  IN  IF idx = 0 THEN "" ELSE TrimSpace(SubSeq(line, idx, Len(line)))

PercentBefore(rest) ==
  LET pctIdx == Index(rest, "%")
      scan   == SscanfInt(TrimSpace(SubSeq(rest, 1, pctIdx - 1)))
  IN  IF pctIdx = 0 THEN [ok |-> FALSE, n |-> 0]
      ELSE IF scan.ok /\ scan.n >= 0 /\ scan.n <= 100 THEN scan
      ELSE [ok |-> FALSE, n |-> 0]

extractContextPercent(line) ==
  LET anchor == "context left until auto-compact:"
      idx    == Index(ToLower(line), anchor)
  IN  IF idx = 0 THEN 0
      ELSE LET p == PercentBefore(TrimSpace(SubSeq(line, idx + Len(anchor), Len(line))))
           IN  IF p.ok THEN p.n ELSE 0

extractSessionLimit(line) ==
  LET anchor == "you've used "
      idx    == Index(ToLower(line), anchor)
  IN  IF idx = 0 THEN [pct |-> 0, reset |-> ""]
      ELSE LET p == PercentBefore(SubSeq(line, idx + Len(anchor), Len(line)))
           IN  IF ~p.ok THEN [pct |-> 0, reset |-> ""]
               ELSE [pct |-> p.n, reset |-> extractLimitResetInfo(line)]

ToolIndicators == "⏺●⏵◉○◎⦿"

extractCurrentTool(line) ==
  LET trimmed == TrimSpace(line)
      rest    == TrimSpace(SubSeq(trimmed, 2, Len(trimmed)))
      parenIdx == Index(rest, "(")
  IN  IF Len(trimmed) = 0 THEN ""
      ELSE IF ~ContainsRune(ToolIndicators, CharAt(trimmed, 1)) THEN ""
      ELSE IF rest = "" THEN ""
      ELSE IF Len(rest) < 2 THEN ""
      ELSE IF ~ContainsRune(UpperLetters, CharAt(rest, 1)) THEN ""
      ELSE IF parenIdx = 0 \/ parenIdx - 1 > ToolNameLimit THEN ""
      ELSE truncateStatus(rest)

----------------------------------------------------------------------------
(* AgentLight and the primary-dialect parser *)

\* a record whose last-change time is left at the zero time
NewAgentUnstamped(name, agentType, activity, now) ==
  [ Name |-> "", Icon |-> "", Role |-> "", Rig |-> "",
    SessionName |-> name, AgentType |-> agentType,
    CurActivity |-> activity, PrevActivity |-> activity,
    LastChangeTime |-> ZeroTime, Level |-> LevelActive,
    StatusText |-> "", WaitingForHuman |-> FALSE, WaitingReason |-> "",
    RateLimited |-> FALSE, HitLimit |-> FALSE, LimitResetInfo |-> "",
    ContextPercent |-> 0, CurrentTool |-> "",
    SessionLimitPct |-> 0, SessionLimitReset |-> "" ]

NewAgent(name, agentType, activity, now) ==
  [ Name |-> "", Icon |-> "", Role |-> "", Rig |-> "",
    SessionName |-> name, AgentType |-> agentType,
    CurActivity |-> activity, PrevActivity |-> activity,
    LastChangeTime |-> now, Level |-> LevelActive,
    StatusText |-> "", WaitingForHuman |-> FALSE, WaitingReason |-> "",
    RateLimited |-> FALSE, HitLimit |-> FALSE, LimitResetInfo |-> "",
    ContextPercent |-> 0, CurrentTool |-> "",
    SessionLimitPct |-> 0, SessionLimitReset |-> "" ]

\* a reset that clears the flags and leaves the texts
ResetFlagsOnly(a) ==
  [a EXCEPT !.WaitingForHuman = FALSE, !.RateLimited = FALSE, !.HitLimit = FALSE]

\* a reset that also forgets the sticky fields
ResetAllFields(a) ==
  [a EXCEPT !.StatusText = "", !.WaitingForHuman = FALSE, !.WaitingReason = "",
            !.RateLimited = FALSE, !.HitLimit = FALSE, !.LimitResetInfo = "",
            !.CurrentTool = "", !.ContextPercent = 0, !.SessionLimitPct = 0,
            !.SessionLimitReset = ""]

ResetPaneFields(a) ==
  [a EXCEPT !.StatusText = "", !.WaitingForHuman = FALSE, !.WaitingReason = "",
            !.RateLimited = FALSE, !.HitLimit = FALSE, !.LimitResetInfo = "",
            !.CurrentTool = ""]

\* everything parsePaneContentClaude computes from one line alone
ClaudeLineFacts(line) ==
  LET trimmed == TrimSpace(line)
      lower   == ToLower(trimmed)
      tool    == extractCurrentTool(trimmed)
  IN  [ hitLimit      |-> Contains(lower, "hit your limit"),
        resetInfo     |-> extractLimitResetInfo(trimmed),
        creditLimit   |-> Contains(lower, "credit balance too low")
                            \/ Contains(lower, "add funds:"),
        extraUsage    |-> Contains(lower, "/extra-usage"),
        sessionAnchor |-> Contains(lower, "of your session limit")
                            \/ Contains(lower, "% of your session"),
        sessionLimit  |-> extractSessionLimit(trimmed),
        contextAnchor |-> Contains(lower, "context left until auto-compact:"),
        contextPct    |-> extractContextPercent(trimmed),
        tool          |-> tool,
        compactTool   |-> Contains(ToLower(tool), "compact"),
        rateLimit     |-> Contains(lower, "rate limit") /\ Contains(lower, "resets"),
        chrome        |-> isChromeLine(line),
        wait          |-> detectHumanWait(trimmed),
        status        |-> extractStatusLine(trimmed),
        taskName      |-> extractTaskName(line) ]

\* the facts of every line a pane of the model can show
ClaudeFactsTable == [l \in KnownLines |-> ClaudeLineFacts(l)]

\* the facts of the lines of a pane, line by line
ClaudeFacts(lines) == [i \in 1..Len(lines) |-> ClaudeFactsTable[lines[i]]]

\* the task name of the bottom-most line that yields one
RECURSIVE FindTaskName(_, _)
FindTaskName(facts, i) ==
  IF i < 1 THEN ""
  ELSE IF facts[i].taskName # "" THEN facts[i].taskName
  ELSE FindTaskName(facts, i - 1)

\* one line of the top-down scan for limits, context and current tool;
\* [a, stop]: stop is the break of the loop
ClaudeLimitLine(a, f) ==
  LET a1 == IF f.sessionAnchor /\ f.sessionLimit.pct > 0
            THEN [a EXCEPT !.SessionLimitPct = f.sessionLimit.pct,
                           !.SessionLimitReset =
                              IF f.sessionLimit.reset # "" THEN f.sessionLimit.reset ELSE @]
            ELSE a
      a2 == IF f.contextAnchor /\ f.contextPct > 0
            THEN [a1 EXCEPT !.ContextPercent = f.contextPct] ELSE a1
      a3 == IF f.tool # ""
            THEN [a2 EXCEPT !.CurrentTool = f.tool,
                            !.ContextPercent = IF f.compactTool THEN 0 ELSE @]
            ELSE a2
  IN  IF f.hitLimit
        THEN [a |-> [a EXCEPT !.HitLimit = TRUE, !.LimitResetInfo = f.resetInfo],
              stop |-> TRUE]
      ELSE IF f.creditLimit
        THEN [a |-> [a EXCEPT !.HitLimit = TRUE,
                              !.LimitResetInfo = "credit balance too low"],
              stop |-> TRUE]
      ELSE IF f.extraUsage
        THEN [a |-> [a EXCEPT !.HitLimit = TRUE], stop |-> TRUE]
      ELSE [a |-> a3, stop |-> FALSE]

RECURSIVE ClaudeLimitScan(_, _, _)
ClaudeLimitScan(a, facts, i) ==
  IF i > Len(facts) THEN a
  ELSE LET r == ClaudeLimitLine(a, facts[i])
       IN  IF r.stop THEN r.a ELSE ClaudeLimitScan(r.a, facts, i + 1)

\* a rate-limit scan over every captured line
ClaudeRateLimitAnywhere(a, facts) ==
  IF ~a.HitLimit /\ \E i \in 1..Len(facts) : facts[i].rateLimit
  THEN [a EXCEPT !.RateLimited = TRUE]
  ELSE a

ClaudeRateLimit(a, facts) ==
  LET start == IF Len(facts) - RateLimitWindow < 0 THEN 0 ELSE Len(facts) - RateLimitWindow
  IN  IF ~a.HitLimit /\ \E i \in (start + 1)..Len(facts) : facts[i].rateLimit
      THEN [a EXCEPT !.RateLimited = TRUE]
      ELSE a

\* a bottom-up scan whose window counts the chrome lines too
RECURSIVE ClaudeContentScanCountingChrome(_, _, _, _)
ClaudeContentScanCountingChrome(a, facts, i, contentChecked) ==
  IF ~(i >= 1 /\ contentChecked < ContentWindow) THEN [a |-> a, returned |-> FALSE]
  ELSE LET f == facts[i]
       IN  IF f.chrome
             THEN ClaudeContentScanCountingChrome(a, facts, i - 1, contentChecked + 1)
           ELSE IF f.wait # ""
             THEN [a |-> [a EXCEPT !.WaitingForHuman = TRUE, !.WaitingReason = f.wait],
                   returned |-> TRUE]
           ELSE IF f.status # ""
             THEN [a |-> [a EXCEPT !.StatusText = f.status], returned |-> FALSE]
           ELSE ClaudeContentScanCountingChrome(a, facts, i - 1, contentChecked + 1)

\* the bottom-up scan; [a, returned]: returned is the return out of the parser
RECURSIVE ClaudeContentScan(_, _, _, _)
ClaudeContentScan(a, facts, i, contentChecked) ==
  IF ~(i >= 1 /\ contentChecked < ContentWindow) THEN [a |-> a, returned |-> FALSE]
  ELSE LET f == facts[i]
       IN  IF f.chrome THEN ClaudeContentScan(a, facts, i - 1, contentChecked)
           ELSE IF f.wait # ""
             THEN [a |-> [a EXCEPT !.WaitingForHuman = TRUE, !.WaitingReason = f.wait],
                   returned |-> TRUE]
           ELSE IF f.status # ""
             THEN [a |-> [a EXCEPT !.StatusText = f.status], returned |-> FALSE]
           ELSE ClaudeContentScan(a, facts, i - 1, contentChecked + 1)

\* the tail of the parser, after the bottom-up scan fell through
ClaudePostProcess(a, taskName) ==
  LET a3 == IF HasPrefix(a.StatusText, "COMPACTING")
            THEN [a EXCEPT !.CurrentTool = "", !.ContextPercent = 0]
            ELSE a
      a4 == IF a3.HitLimit THEN [a3 EXCEPT !.CurrentTool = ""] ELSE a3
  IN  IF taskName # ""
      THEN [a4 EXCEPT !.StatusText =
               IF @ # "" THEN @ \o " · " \o taskName ELSE taskName]
      ELSE a4

\* the parser on the facts of the lines; a0 is the record after the reset
ClaudeParse(a0, facts) ==
  LET taskName == FindTaskName(facts, Len(facts))
      a1 == ClaudeLimitScan(a0, facts, 1)
      a2 == ClaudeRateLimit(a1, facts)
      sc == ClaudeContentScan(a2, facts, Len(facts), 0)
  IN  IF Len(facts) = 0 THEN a0
      ELSE IF sc.returned THEN sc.a
      ELSE ClaudePostProcess(sc.a, taskName)

parsePaneContentClaude(a, lines) == ClaudeParse(ResetPaneFields(a), ClaudeFacts(lines))

----------------------------------------------------------------------------
(* The secondary ("opencode") dialect *)

RECURSIVE Split(_, _)
Split(s, sep) ==
  LET i == Index(s, sep)
  IN  IF i = 0 THEN <<s>>
      ELSE <<SubSeq(s, 1, i - 1)>> \o Split(SubSeq(s, i + Len(sep), Len(s)), sep)

RECURSIVE Join(_, _)
Join(parts, sep) ==
  IF Len(parts) = 0 THEN ""
  ELSE IF Len(parts) = 1 THEN parts[1]
  ELSE parts[1] \o sep \o Join(Tail(parts), sep)

BoxDrawingRunes == (U2503 \o U2579 \o "▀" \o U2502 \o U250C \o U2510 \o U2514 \o U2518 \o U2500 \o U2501 \o U2550 \o U2551 \o U2554 \o U2557 \o U255A \o U255D \o " \t")

isBoxDrawingOnly(s) == AllIn(s, BoxDrawingRunes)

isOpenCodeChromeLine(line) ==
  LET trimmed == TrimSpace(line)
  IN  IF trimmed = "" THEN TRUE
      ELSE IF isBoxDrawingOnly(trimmed) THEN TRUE
      ELSE IF Contains(trimmed, "esc interrupt") THEN TRUE
      ELSE IF Contains(trimmed, "ctrl+p commands") THEN TRUE
      ELSE IF HasPrefix(trimmed, "Build ") /\ Contains(trimmed, "Copilot") THEN TRUE
      ELSE isSeparatorLine(trimmed)

looksLikeDuration(s) ==
  IF Len(s) = 0 \/ Len(s) > 20 THEN FALSE
  ELSE IF ~AllIn(s, "smh0123456789 ") THEN FALSE
  ELSE \E i \in 1..Len(s) : ContainsRune("smh", CharAt(s, i))

extractOpenCodeElapsedTime(line) ==
  LET trimmed  == TrimSpace(line)
      idx      == Index(trimmed, "▣")
      rest     == TrimSpace(SubSeq(trimmed, idx + 1, Len(trimmed)))
      segments == Split(rest, " · ")
      lastSeg  == TrimSpace(segments[Len(segments)])
      taskName == TrimSpace(segments[1])
  IN  IF idx = 0 THEN ""
      ELSE IF rest = "" THEN ""
      ELSE IF Len(segments) < 3 THEN ""
      ELSE IF ~looksLikeDuration(lastSeg) THEN ""
      ELSE IF taskName # "" THEN taskName \o " · " \o lastSeg
      ELSE lastSeg

BrailleSpinners == (U280B \o U2819 \o U2839 \o U2838 \o U283C \o U2834 \o U2826 \o U2827 \o U2807 \o U280F \o "⣾⣽⣻⢿" \o U287F \o "⣟⣯⣷")

extractBrailleSpinner(line) ==
  LET trimmed == TrimSpace(line)
      rest    == TrimSpace(SubSeq(trimmed, 2, Len(trimmed)))
  IN  IF Len(trimmed) = 0 THEN ""
      ELSE IF ContainsRune(BrailleSpinners, CharAt(trimmed, 1))
        THEN IF rest # "" THEN truncateStatus(rest) ELSE "working"
      ELSE ""

Shorten(s, limit) ==
  IF Len(s) > limit THEN SubSeq(s, 1, limit - 3) \o "..." ELSE s

extractOpenCodeTool(line) ==
  LET trimmed == TrimSpace(line)
      rest    == TrimSpace(SubSeq(trimmed, 2, Len(trimmed)))
      parts   == SplitN2(rest, " ")
  IN  IF ~HasPrefix(trimmed, U2731) THEN ""
      ELSE IF rest = "" THEN ""
      ELSE IF Len(parts) = 2
        THEN parts[1] \o "(" \o Shorten(Trim(parts[2], "\"'"), 60) \o ")"
      ELSE parts[1]

ShellSuffixes == <<" 2>&1", " 2>/dev/null", " > /dev/null">>

RECURSIVE StripSuffixes(_, _)
StripSuffixes(cmd, k) ==
  IF k > Len(ShellSuffixes) THEN cmd
  ELSE StripSuffixes(TrimSuffix(cmd, ShellSuffixes[k]), k + 1)

formatBashTool(cmd) ==
  LET c == TrimSpace(cmd)
  IN  IF c = "" THEN ""
      ELSE "Bash(" \o Shorten(TrimSpace(StripSuffixes(c, 1)), 60) \o ")"

formatSubTool(sub) ==
  LET s0    == TrimSpace(sub)
      parts == SplitN2(s0, " ")
      arg0  == TrimSpace(parts[2])
      comps == Split(arg0, "/")
      arg1  == IF Contains(arg0, "/") /\ Len(comps) > 3
               THEN Join(SubSeq(comps, Len(comps) - 2, Len(comps)), "/")
               ELSE arg0
  IN  IF s0 = "" THEN ""
      ELSE IF Len(parts) = 1 THEN parts[1]
      ELSE parts[1] \o "(" \o Shorten(arg1, 50) \o ")"

RECURSIVE NumberEnd(_, _)
NumberEnd(s, j) ==
  IF j <= Len(s) /\ IsDigit(CharAt(s, j)) THEN NumberEnd(s, j + 1) ELSE j

\* the first position at or after i where a number of 0..100 followed by "% ("
\* starts decides the result
OpenCodeContextFrom(trimmed, i) ==
  LET pct(k) == DigitsValue(trimmed, k, 0)
      hit(k) == /\ IsDigit(CharAt(trimmed, k))
                /\ NumberEnd(trimmed, k + 1) + 2 <= Len(trimmed)
                /\ SubSeq(trimmed, NumberEnd(trimmed, k + 1),
                          NumberEnd(trimmed, k + 1) + 2) = "% ("
                /\ pct(k) >= 0 /\ pct(k) <= 100
  IN  IF \E k \in i..(Len(trimmed) - 3) : hit(k)
      THEN 100 - pct(CHOOSE k \in i..(Len(trimmed) - 3) :
                       hit(k) /\ \A m \in i..(k - 1) : ~hit(m))
      ELSE 0

extractOpenCodeContextPercent(line) == OpenCodeContextFrom(TrimSpace(line), 1)

OpenCodeSignals ==
  [ elapsedTime |-> "", lastToolLine |-> "", pendingOp |-> "",
    spinnerStatus |-> "", hasTodoInProgress |-> FALSE,
    lastPanelDesc |-> "", lastSubTool |-> "", lastBashCmd |-> "",
    activeBashCmd |-> "", activeSubTool |-> "", activeTaskDesc |-> "",
    inPanel |-> FALSE, activeToolName |-> "" ]

\* what a framed line (inside a completed tool panel) stores: [kind, value]
OpenCodePanelFacts(trimmed) ==
  LET inner == TrimSpace(TrimPrefix(trimmed, U2503))
      sub   == TrimSpace(TrimPrefix(inner, U2514))
  IN  IF HasPrefix(inner, "# ") THEN [kind |-> "desc", value |-> TrimPrefix(inner, "# ")]
      ELSE IF HasPrefix(inner, "$ ") THEN [kind |-> "bash", value |-> TrimPrefix(inner, "$ ")]
      ELSE IF HasPrefix(inner, (U2514 \o " ")) \/ HasPrefix(inner, U2514)
        THEN IF sub # "" THEN [kind |-> "sub", value |-> sub]
             ELSE [kind |-> "none", value |-> ""]
      ELSE IF inner # "" /\ ~HasPrefix(inner, "ctrl+")
              /\ ~HasPrefix(inner, U2713) /\ ~HasPrefix(inner, "○")
        THEN IF Contains(inner, "toolcall") THEN [kind |-> "desc", value |-> inner]
             ELSE [kind |-> "none", value |-> ""]
      ELSE [kind |-> "none", value |-> ""]

\* everything parsePaneContentOpenCode computes from one line alone
OpenCodeLineFacts(line) ==
  LET trimmed == TrimSpace(line)
      lower   == ToLower(trimmed)
  IN  [ empty     |-> trimmed = "",
        chrome    |-> isOpenCodeChromeLine(trimmed),
        framed    |-> HasPrefix(trimmed, U2503),
        header    |-> HasPrefix(trimmed, "▣"),
        elapsed   |-> extractOpenCodeElapsedTime(trimmed),
        tool      |-> IF HasPrefix(trimmed, U2731) THEN extractOpenCodeTool(trimmed) ELSE "",
        panel     |-> OpenCodePanelFacts(trimmed),
        spinner   |-> extractBrailleSpinner(trimmed),
        subTool   |-> IF HasPrefix(trimmed, (U2514 \o " ")) \/ HasPrefix(trimmed, U2514)
                      THEN TrimSpace(TrimPrefix(trimmed, U2514)) ELSE "",
        bash      |-> HasPrefix(trimmed, "$ "),
        bashCmd   |-> TrimPrefix(trimmed, "$ "),
        toolcall  |-> Contains(trimmed, "toolcall"),
        pending   |-> IF HasPrefix(trimmed, "~")
                      THEN TrimSpace(SubSeq(trimmed, 2, Len(trimmed))) ELSE "",
        todo      |-> Contains(trimmed, ("[" \o U2022 \o "]")),
        contextPct |-> extractOpenCodeContextPercent(trimmed),
        rateLimit |-> Contains(lower, "rate limit")
                        /\ (Contains(lower, "retry") \/ Contains(lower, "resets")
                              \/ Contains(lower, "exceeded")),
        hitLimit  |-> Contains(lower, "hit your limit")
                        \/ Contains(lower, "credit balance too low")
                        \/ Contains(lower, "quota exceeded"),
        resetInfo |-> extractLimitResetInfo(line),
        trimmed   |-> trimmed ]

OpenCodeFactsTable == [l \in KnownLines |-> OpenCodeLineFacts(l)]

OpenCodeFacts(lines) == [i \in 1..Len(lines) |-> OpenCodeFactsTable[lines[i]]]

\* a framed line
OpenCodePanelLine(g, f) ==
  IF f.panel.kind = "desc" THEN [g EXCEPT !.lastPanelDesc = f.panel.value]
  ELSE IF f.panel.kind = "bash" THEN [g EXCEPT !.lastBashCmd = f.panel.value]
  ELSE IF f.panel.kind = "sub" THEN [g EXCEPT !.lastSubTool = f.panel.value]
  ELSE g

\* an unframed line; [g, a]
OpenCodeBareLine(g, a, f) ==
  LET g1 == IF f.spinner # ""
            THEN [g EXCEPT !.spinnerStatus = f.spinner, !.activeToolName = f.spinner] ELSE g
      g2 == IF f.subTool # "" /\ ~g1.inPanel THEN [g1 EXCEPT !.activeSubTool = f.subTool] ELSE g1
      g3 == IF f.bash /\ ~g2.inPanel THEN [g2 EXCEPT !.activeBashCmd = f.bashCmd] ELSE g2
      g4 == IF f.toolcall /\ ~g3.inPanel THEN [g3 EXCEPT !.activeTaskDesc = f.trimmed] ELSE g3
      g5 == IF f.pending # "" THEN [g4 EXCEPT !.pendingOp = f.pending] ELSE g4
      g6 == IF f.todo THEN [g5 EXCEPT !.hasTodoInProgress = TRUE] ELSE g5
      a1 == IF f.contextPct > 0 THEN [a EXCEPT !.ContextPercent = f.contextPct] ELSE a
      a2 == IF f.rateLimit THEN [a1 EXCEPT !.RateLimited = TRUE] ELSE a1
      a3 == IF f.hitLimit
            THEN [a2 EXCEPT !.HitLimit = TRUE, !.LimitResetInfo = f.resetInfo]
            ELSE a2
  IN  [g |-> g6, a |-> a3]

OpenCodeLine(g, a, f) ==
  LET g0 == IF f.framed THEN [g EXCEPT !.inPanel = TRUE]
            ELSE IF ~f.empty /\ ~f.chrome THEN [g EXCEPT !.inPanel = FALSE]
            ELSE g
      g1 == IF f.header THEN [g0 EXCEPT !.elapsedTime = f.elapsed] ELSE g0
      g2 == IF f.tool # "" THEN [g1 EXCEPT !.lastToolLine = f.tool] ELSE g1
  IN  IF f.empty \/ f.chrome THEN [g |-> g0, a |-> a]
      ELSE IF f.framed THEN [g |-> OpenCodePanelLine(g2, f), a |-> a]
      ELSE OpenCodeBareLine(g2, a, f)

RECURSIVE OpenCodeScan(_, _, _, _)
OpenCodeScan(g, a, facts, i) ==
  IF i > Len(facts) THEN [g |-> g, a |-> a]
  ELSE LET r == OpenCodeLine(g, a, facts[i])
       IN  OpenCodeScan(r.g, r.a, facts, i + 1)

\* the priority chain that picks CurrentTool and StatusText
OpenCodeDecide(a, g) ==
  LET bestDesc == IF g.activeTaskDesc # "" THEN g.activeTaskDesc ELSE g.lastPanelDesc
      descOrElapsed(x) ==
        IF bestDesc # "" THEN [x EXCEPT !.StatusText = truncateStatus(bestDesc)]
        ELSE IF g.elapsedTime # "" THEN [x EXCEPT !.StatusText = g.elapsedTime]
        ELSE x
      descElseElapsed(x) ==
        IF bestDesc # "" THEN [x EXCEPT !.StatusText = truncateStatus(bestDesc)]
        ELSE [x EXCEPT !.StatusText = g.elapsedTime]
  IN  IF g.lastToolLine # ""
        THEN descOrElapsed([a EXCEPT !.CurrentTool = g.lastToolLine])
      ELSE IF g.activeSubTool # ""
        THEN LET x == [a EXCEPT !.CurrentTool = formatSubTool(g.activeSubTool)]
             IN  IF bestDesc # "" THEN [x EXCEPT !.StatusText = truncateStatus(bestDesc)]
                 ELSE IF g.activeToolName # "" THEN [x EXCEPT !.StatusText = g.activeToolName]
                 ELSE IF g.elapsedTime # "" THEN [x EXCEPT !.StatusText = g.elapsedTime]
                 ELSE x
      ELSE IF g.activeBashCmd # ""
        THEN descOrElapsed([a EXCEPT !.CurrentTool = formatBashTool(g.activeBashCmd)])
      ELSE IF g.pendingOp # ""
        THEN [a EXCEPT !.StatusText = g.pendingOp,
                       !.CurrentTool = IF g.lastBashCmd # ""
                                       THEN formatBashTool(g.lastBashCmd) ELSE @]
      ELSE IF g.spinnerStatus # ""
        THEN [a EXCEPT !.StatusText = IF bestDesc # "" THEN truncateStatus(bestDesc)
                                      ELSE g.spinnerStatus,
                       !.CurrentTool = IF g.lastSubTool # ""
                                       THEN formatSubTool(g.lastSubTool) ELSE @]
      ELSE IF g.lastSubTool # "" /\ g.elapsedTime # ""
        THEN descElseElapsed([a EXCEPT !.CurrentTool = formatSubTool(g.lastSubTool)])
      ELSE IF g.lastBashCmd # "" /\ g.elapsedTime # ""
        THEN descElseElapsed([a EXCEPT !.CurrentTool = formatBashTool(g.lastBashCmd)])
      ELSE IF g.elapsedTime # ""
        THEN [a EXCEPT !.StatusText = IF bestDesc # ""
                                      THEN truncateStatus(bestDesc) \o " · " \o g.elapsedTime
                                      ELSE g.elapsedTime]
      ELSE IF g.hasTodoInProgress THEN [a EXCEPT !.StatusText = ""]
      ELSE a

\* the parser on the facts of the lines; a0 is the record after the reset
OpenCodeParse(a0, facts) ==
  LET r  == OpenCodeScan(OpenCodeSignals, a0, facts, 1)
      a1 == OpenCodeDecide(r.a, r.g)
  IN  IF Len(facts) = 0 THEN a0
      ELSE IF a1.HitLimit THEN [a1 EXCEPT !.CurrentTool = ""]
      ELSE a1

parsePaneContentOpenCode(a, lines) == OpenCodeParse(ResetPaneFields(a), OpenCodeFacts(lines))

----------------------------------------------------------------------------
(* Dialect detection and dispatch *)

\* the secondary-dialect signature of one line
OpenCodeSignature(line) ==
  \/ Contains(line, "OpenCode")
  \/ Contains(line, "ctrl+p commands") /\ Contains(line, "tab agents")

SignatureTable == [l \in KnownLines |-> OpenCodeSignature(l)]

\* a content probe that gives no verdict without a signature
detectAgentTypeFromPaneUndecided(lines) ==
  IF \E i \in 1..Len(lines) : SignatureTable[lines[i]] THEN "opencode" ELSE ""

detectAgentTypeFromPane(lines) ==
  IF \E i \in 1..Len(lines) : SignatureTable[lines[i]] THEN "opencode" ELSE "claude"

isClaudeAgent(agentType) == agentType = "" \/ agentType = "claude"

\* the dispatch on the agent type, once it is known
ParseByType(a, lines) ==
  IF a.AgentType = "opencode" THEN parsePaneContentOpenCode(a, lines)
  ELSE parsePaneContentClaude(a, lines)

\* a dispatch that probes the pane content at every parse
parsePaneContentProbing(a, lines) ==
  ParseByType([a EXCEPT !.AgentType = detectAgentTypeFromPane(lines)], lines)

parsePaneContent(a, lines) ==
  ParseByType(IF a.AgentType = ""
              THEN [a EXCEPT !.AgentType = detectAgentTypeFromPane(lines)]
              ELSE a,
              lines)

----------------------------------------------------------------------------
(* The poll command: tmux list-sessions, capture-pane and show-environment *)
(*                                                                         *)
(* A tmux server is [err, list, capture, env]: err is the failure of       *)
(* list-sessions, list its output lines "<session_name>|<window_activity>",*)
(* capture[t] the outcome of capture-pane -t t and env[t] the outcome of   *)
(* show-environment -t t GT_AGENT, each [ok, out].                         *)

CaptureLines(tmux, target) ==
  IF target \in DOMAIN tmux.capture /\ tmux.capture[target].ok
  THEN tmux.capture[target].out \o <<"">>   \* strings.Split(out, "\n")
  ELSE <<>>

\* one line of the listing: [ok, name, activity], ok = the line is kept
ListingLine(line) ==
  LET parts == SplitN2(line, "|")
      name  == parts[1]
      scan  == SscanfInt(parts[2])
      skip  == [ok |-> FALSE, name |-> "", activity |-> 0]
  IN  IF line = "" THEN skip
      ELSE IF Len(parts) # 2 THEN skip
      ELSE IF ~HasPrefix(name, "gt-") /\ ~HasPrefix(name, "hq-") THEN skip
      ELSE IF ~scan.ok \/ scan.n = 0 THEN skip
      ELSE [ok |-> TRUE, name |-> name, activity |-> scan.n]

ListingTable == [l \in KnownListing |-> ListingLine(l)]

RECURSIVE ParseListing(_, _, _)
ParseListing(tmux, i, sessions) ==
  IF i > Len(tmux.list) THEN sessions
  ELSE LET e == ListingTable[tmux.list[i]]
       IN  IF ~e.ok THEN ParseListing(tmux, i + 1, sessions)
           ELSE ParseListing(tmux, i + 1,
                  Append(sessions, [name |-> e.name, activity |-> e.activity,
                                    paneLines |-> CaptureLines(tmux, e.name)]))

pollSessions(tmux) == IF tmux.err THEN <<>> ELSE ParseListing(tmux, 1, <<>>)

\* the value of GT_AGENT in the output of show-environment
EnvValue(out) ==
  LET parts == SplitN2(TrimSpace(out), "=")
  IN  IF Len(parts) # 2 THEN "" ELSE parts[2]

EnvTable == [o \in KnownEnv |-> EnvValue(o)]

detectAgentType(tmux, sessionName) ==
  LET r == IF sessionName \in DOMAIN tmux.env THEN tmux.env[sessionName]
           ELSE [ok |-> FALSE, out |-> ""]
  IN  IF ~r.ok THEN "" ELSE EnvTable[r.out]

----------------------------------------------------------------------------
(* updateAgents: the merge of a poll's session list *)

\* the role names and icons of internal/constants
RoleMayor == "mayor"
RoleDeacon == "deacon"
RoleDog == "dog"
RoleWitness == "witness"
RoleRefinery == "refinery"
RoleCrew == "crew"
RolePolecat == "polecat"
EmojiMayor == "EmojiMayor"
EmojiDeacon == "EmojiDeacon"
EmojiDog == "EmojiDog"
EmojiWitness == "EmojiWitness"
EmojiRefinery == "EmojiRefinery"
EmojiCrew == "EmojiCrew"
EmojiPolecat == "EmojiPolecat"

\* an identity that keeps the identifier as it is
SessionIdentityRaw(name) == [Name |-> name, Icon |-> "", Role |-> "", Rig |-> ""]

\* the fields that parseSessionName derives from a session name
SessionIdentity(name) ==
  LET none   == [Name |-> "", Icon |-> "", Role |-> "", Rig |-> ""]
      hq     == TrimPrefix(name, "hq-")
      suffix == TrimPrefix(name, "gt-")
      parts  == SplitN2(suffix, "-")
      rest   == parts[2]
  IN  IF HasPrefix(name, "hq-")
        THEN IF hq = "mayor"
               THEN [Name |-> "Mayor", Icon |-> EmojiMayor, Role |-> RoleMayor, Rig |-> "hq"]
             ELSE IF hq = "deacon"
               THEN [Name |-> "Deacon", Icon |-> EmojiDeacon, Role |-> RoleDeacon, Rig |-> "hq"]
             ELSE [Name |-> hq, Icon |-> "?", Role |-> hq, Rig |-> "hq"]
      ELSE IF ~HasPrefix(name, "gt-") THEN [none EXCEPT !.Name = name]
      ELSE IF HasPrefix(suffix, "dog-")
        THEN [Name |-> TrimPrefix(suffix, "dog-"), Icon |-> EmojiDog,
              Role |-> RoleDog, Rig |-> "hq"]
      ELSE IF Len(parts) < 2 THEN [none EXCEPT !.Name = suffix]
      ELSE IF rest = "witness"
        THEN [Name |-> "witness", Icon |-> EmojiWitness, Role |-> RoleWitness,
              Rig |-> parts[1]]
      ELSE IF rest = "refinery"
        THEN [Name |-> "refinery", Icon |-> EmojiRefinery, Role |-> RoleRefinery,
              Rig |-> parts[1]]
      ELSE IF HasPrefix(rest, "crew-")
        THEN [Name |-> TrimPrefix(rest, "crew-"), Icon |-> EmojiCrew,
              Role |-> RoleCrew, Rig |-> parts[1]]
      ELSE IF HasPrefix(rest, "deacon-")
        THEN [Name |-> TrimPrefix(rest, "deacon-"), Icon |-> EmojiDog,
              Role |-> RoleDog, Rig |-> parts[1]]
      ELSE [Name |-> rest, Icon |-> EmojiPolecat, Role |-> RolePolecat,
            Rig |-> parts[1]]

IdentityTable == [n \in KnownNames |-> SessionIdentity(n)]

parseSessionName(a) ==
  LET id == IdentityTable[a.SessionName]
  IN  [a EXCEPT !.Name = id.Name, !.Icon = id.Icon, !.Role = id.Role, !.Rig = id.Rig]

\* byte order of the characters that rig names are made of
ByteOrder == "-0123456789" \o UpperLetters \o "_" \o LowerLetters \o "|"

\* a < b in the order of sort.Strings
RECURSIVE StringLess(_, _, _)
StringLess(a, b, i) ==
  IF i > Len(b) THEN FALSE
  ELSE IF i > Len(a) THEN TRUE
  ELSE IF CharAt(a, i) = CharAt(b, i) THEN StringLess(a, b, i + 1)
  ELSE Index(ByteOrder, CharAt(a, i)) < Index(ByteOrder, CharAt(b, i))

RECURSIVE SortStrings(_)
SortStrings(S) ==
  IF S = {} THEN <<>>
  ELSE LET least == CHOOSE x \in S : \A y \in S \ {x} : StringLess(x, y, 1)
       IN  <<least>> \o SortStrings(S \ {least})

\* the rig names of the agents, "hq" first, the others sorted
rebuildRigOrder(ags) ==
  LET rigSet == {ags[k].Rig : k \in 1..Len(ags)} \ {""}
  IN  (IF "hq" \in rigSet THEN <<"hq">> ELSE <<>>) \o SortStrings(rigSet \ {"hq"})

NamesOf(ags) == {ags[k].SessionName : k \in 1..Len(ags)}

\* the lookup "existing" built from the current agents: the position of
\* the record of each session name (the last one, were there several)
ExistingOf(ags) ==
  [n \in NamesOf(ags) |->
     CHOOSE k \in 1..Len(ags) :
       /\ ags[k].SessionName = n
       /\ \A j \in 1..Len(ags) : ags[j].SessionName = n => j <= k]

\* a merge that does not enter the record it creates into the lookup
RememberNothing(existing, name, k) == existing

\* existing[s.name] = agent, for the record just appended
Remember(existing, name, k) ==
  [n \in (DOMAIN existing) \cup {name} |-> IF n = name THEN k ELSE existing[n]]

\* a merge that stamps the change time at every poll
UpdateExistingStamped(a, activity, now) ==
  [a EXCEPT !.PrevActivity = a.CurActivity, !.CurActivity = activity,
            !.LastChangeTime = now]

\* a merge that stamps the change time when the timestamp has not changed
UpdateExistingInverted(a, activity, now) ==
  LET a1 == [a EXCEPT !.PrevActivity = a.CurActivity, !.CurActivity = activity]
  IN  IF a1.CurActivity = a1.PrevActivity THEN [a1 EXCEPT !.LastChangeTime = now]
      ELSE a1

UpdateExisting(a, activity, now) ==
  LET a1 == [a EXCEPT !.PrevActivity = a.CurActivity, !.CurActivity = activity]
  IN  IF a1.CurActivity # a1.PrevActivity THEN [a1 EXCEPT !.LastChangeTime = now]
      ELSE a1

\* one entry of the session list; st is [agents, existing]
MergeSession(st, s, now, tmux) ==
  IF s.name \notin DOMAIN st.existing
  THEN [agents   |-> Append(st.agents,
                            parseSessionName(
                              NewAgent(s.name, detectAgentType(tmux, s.name),
                                       s.activity, now))),
        existing |-> Remember(st.existing, s.name, Len(st.agents) + 1)]
  ELSE [agents   |-> [st.agents EXCEPT ![st.existing[s.name]] =
                        UpdateExisting(st.agents[st.existing[s.name]], s.activity, now)],
        existing |-> st.existing]

RECURSIVE MergeSessions(_, _, _, _, _)
MergeSessions(st, sessions, i, now, tmux) ==
  IF i > Len(sessions) THEN st.agents
  ELSE MergeSessions(MergeSession(st, sessions[i], now, tmux), sessions, i + 1, now, tmux)

Seen(sessions) == {sessions[i].name : i \in 1..Len(sessions)}

\* a merge that keeps the records of the sessions it has not seen
RemoveDeadKeepsAll(ags, seen) == ags

RemoveDead(ags, seen) ==
  LET keep(a) == a.SessionName \in seen
  IN  SelectSeq(ags, keep)

\* paneMap[name]: the pane lines of the last list entry of that name
PaneMap(sessions, name) ==
  LET k == CHOOSE i \in 1..Len(sessions) :
             /\ sessions[i].name = name
             /\ \A j \in 1..Len(sessions) : sessions[j].name = name => j <= i
  IN  sessions[k].paneLines

ZeroCounts ==
  [ totalAgents |-> 0, activeCount |-> 0, recentCount |-> 0, idleCount |-> 0,
    stuckCount |-> 0, rateLimitedCount |-> 0, hitLimitCount |-> 0,
    waitingCount |-> 0 ]

\* a waiting flag that wins without the debounce
WaitingUndebounced(a, sinceLast) == a.WaitingForHuman

WaitingApplies(a, sinceLast) == a.WaitingForHuman /\ sinceLast > WaitDebounce

\* a debounce that leaves the flag standing
KeepFalsePositive(a, sinceLast) == a

ClearFalsePositive(a, sinceLast) ==
  IF a.WaitingForHuman /\ sinceLast <= WaitDebounce
  THEN [a EXCEPT !.WaitingForHuman = FALSE]
  ELSE a

\* a level loop without the hard-cap override
HitLimitIgnored(a) == FALSE

HitLimitApplies(a) == a.HitLimit

\* thresholds that keep each boundary value in the earlier level
TimeLevelInclusive(sinceLast) ==
  IF sinceLast <= ActiveWindow THEN LevelActive
  ELSE IF sinceLast <= RecentWindow THEN LevelRecent
  ELSE IF sinceLast <= WarmWindow THEN LevelWarm
  ELSE IF sinceLast <= CoolWindow THEN LevelCool
  ELSE LevelCold

TimeLevel(sinceLast) ==
  IF sinceLast < ActiveWindow THEN LevelActive
  ELSE IF sinceLast < RecentWindow THEN LevelRecent
  ELSE IF sinceLast < WarmWindow THEN LevelWarm
  ELSE IF sinceLast < CoolWindow THEN LevelCool
  ELSE LevelCold

CountTimeLevel(c, level) ==
  IF level = LevelActive THEN [c EXCEPT !.activeCount = @ + 1]
  ELSE IF level = LevelRecent THEN [c EXCEPT !.recentCount = @ + 1]
  ELSE IF level = LevelWarm \/ level = LevelCool THEN [c EXCEPT !.idleCount = @ + 1]
  ELSE [c EXCEPT !.stuckCount = @ + 1]

\* a rate-limit override that also replaces Active and Recent
RateLimitAlways(a, level) == a.RateLimited

RateLimitApplies(a, level) ==
  a.RateLimited /\ level # LevelActive /\ level # LevelRecent

\* a rate-limit override that leaves the agent in its time counter
RateLimitOverrideCountedTwice(a, c) ==
  [a |-> [a EXCEPT !.Level = LevelRateLimited],
   c |-> [c EXCEPT !.rateLimitedCount = @ + 1]]

RateLimitOverride(a, c) ==
  LET c1 == IF a.Level = LevelWarm \/ a.Level = LevelCool THEN [c EXCEPT !.idleCount = @ - 1]
            ELSE IF a.Level = LevelCold THEN [c EXCEPT !.stuckCount = @ - 1]
            ELSE c
  IN  [a |-> [a EXCEPT !.Level = LevelRateLimited],
       c |-> [c1 EXCEPT !.rateLimitedCount = @ + 1]]

\* the body of the level loop for one parsed agent; [a, c]
AssignLevel(a, sinceLast, c) ==
  LET a1 == ClearFalsePositive(a, sinceLast)
      a2 == [a1 EXCEPT !.Level = TimeLevel(sinceLast)]
      c2 == CountTimeLevel(c, a2.Level)
  IN  IF WaitingApplies(a, sinceLast)
        THEN [a |-> [a EXCEPT !.Level = LevelWaitingForHuman],
              c |-> [c EXCEPT !.waitingCount = @ + 1]]
      ELSE IF HitLimitApplies(a1)
        THEN [a |-> [a1 EXCEPT !.Level = LevelHitLimit],
              c |-> [c EXCEPT !.hitLimitCount = @ + 1]]
      ELSE IF RateLimitApplies(a2, a2.Level) THEN RateLimitOverride(a2, c2)
      ELSE [a |-> a2, c |-> c2]

\* the record of one agent after its pane, if the poll captured one, was parsed
ParsePane(a, sessions) ==
  IF a.SessionName \in Seen(sessions)
  THEN parsePaneContent(a, PaneMap(sessions, a.SessionName))
  ELSE a

\* the accumulator of the level loop after one agent: p is the record as
\* parsed, r its record with the level and the counts
LevelStep(acc, p, r) ==
  [agents |-> Append(acc.agents, r.a), parsed |-> Append(acc.parsed, p), c |-> r.c]

LevelAgent(acc, p, now) == LevelStep(acc, p, AssignLevel(p, now - p.LastChangeTime, acc.c))

\* the level loop; [agents, parsed, c]
RECURSIVE LevelLoop(_, _, _, _, _)
LevelLoop(ags, sessions, now, i, acc) ==
  IF i > Len(ags) THEN acc
  ELSE LevelLoop(ags, sessions, now, i + 1,
                 LevelAgent(acc, ParsePane(ags[i], sessions), now))

\* what updateAgents leaves: merged is the list after the session loop,
\* filtered the list after the removal, r the outcome of the level loop
MergeOutcome(merged, filtered, r) ==
  [agents |-> r.agents, parsed |-> r.parsed,
   c |-> [r.c EXCEPT !.totalAgents = Len(r.agents)],
   removed |-> NamesOf(merged) \ NamesOf(filtered)]

\* a level loop whose counters go on from those of the merge before
LevelAllAccumulating(merged, filtered, sessions, now) ==
  MergeOutcome(merged, filtered,
               LevelLoop(filtered, sessions, now, 1,
                         [agents |-> <<>>, parsed |-> <<>>,
                          c |-> [counts EXCEPT !.totalAgents = 0]]))

LevelAll(merged, filtered, sessions, now) ==
  MergeOutcome(merged, filtered,
               LevelLoop(filtered, sessions, now, 1,
                         [agents |-> <<>>, parsed |-> <<>>, c |-> ZeroCounts]))

RemoveAndLevel(merged, sessions, now) ==
  LevelAll(merged, RemoveDead(merged, Seen(sessions)), sessions, now)

\* updateAgents up to the tool events; [agents, parsed, c, removed]:
\* parsed is every record as parsePaneContent left it, removed the names
\* of the records that the merge dropped
updateAgents(ags, sessions, now, tmux) ==
  RemoveAndLevel(MergeSessions([agents |-> ags, existing |-> ExistingOf(ags)],
                               sessions, 1, now, tmux),
                 sessions, now)

----------------------------------------------------------------------------
(* Tool events of the event log *)
(*                                                                         *)
(* The log is [readable, lines]; a line is [json, ts, type, actor, tool,   *)
(* session]: json is whether it unmarshals, ts the instant of its "ts"     *)
(* field (-1 when it does not parse), tool and session the payload fields. *)

\* a reader that keeps the tool events of the whole tail of the log
readRecentToolEventsAnyAge(root, log, now) ==
  LET keep(l) == /\ l.json
                 /\ (l.type = "tool_started" \/ l.type = "tool_finished")
                 /\ l.ts # -1
      toEvent(l) == [Timestamp |-> l.ts, Actor |-> l.actor, Session |-> l.session,
                     Tool |-> l.tool, EventType |-> l.type]
      kept == SelectSeq(log.lines, keep)
  IN  IF root = "" THEN <<>>
      ELSE IF ~log.readable THEN <<>>
      ELSE [k \in 1..Len(kept) |-> toEvent(kept[k])]

readRecentToolEvents(root, log, now) ==
  LET cutoff == now - EventWindow
      keep(l) == /\ l.json
                 /\ (l.type = "tool_started" \/ l.type = "tool_finished")
                 /\ l.ts # -1
                 /\ ~(l.ts < cutoff)
      toEvent(l) == [Timestamp |-> l.ts, Actor |-> l.actor, Session |-> l.session,
                     Tool |-> l.tool, EventType |-> l.type]
      kept == SelectSeq(log.lines, keep)
  IN  IF root = "" THEN <<>>
      ELSE IF ~log.readable THEN <<>>
      ELSE [k \in 1..Len(kept) |-> toEvent(kept[k])]

\* a finished event that leaves the tool standing
SetToolStartedOnly(ags, k, evt) ==
  [ags EXCEPT ![k].CurrentTool = IF evt.EventType = "tool_started" THEN evt.Tool ELSE @]

SetTool(ags, k, evt) ==
  [ags EXCEPT ![k].CurrentTool = IF evt.EventType = "tool_started" THEN evt.Tool ELSE ""]

\* an index that holds every agent
NeedsEventsAll(ags) == 1..Len(ags)

NeedsEvents(ags) == {k \in 1..Len(ags) : ~isClaudeAgent(ags[k].AgentType)}

LastPart(actor) == LET parts == Split(actor, "/") IN parts[Len(parts)]

\* one event; the set of outcomes: the fallback ranges over a Go map, whose
\* iteration order is not fixed, and stops at the first agent that matches
ApplyToolEvent(ags, evt) ==
  LET bySession == {k \in NeedsEvents(ags) : ags[k].SessionName = evt.Session}
      byActor   == {k \in NeedsEvents(ags) :
                      Contains(ags[k].SessionName, LastPart(evt.Actor))}
  IN  IF evt.Session # "" /\ bySession # {}
        THEN {SetTool(ags, k, evt) : k \in bySession}
      ELSE IF evt.Actor # "" /\ byActor # {}
        THEN {SetTool(ags, k, evt) : k \in byActor}
      ELSE {ags}

RECURSIVE ApplyToolEventsFrom(_, _, _)
ApplyToolEventsFrom(outcomes, events, i) ==
  IF i > Len(events) THEN outcomes
  ELSE ApplyToolEventsFrom(UNION {ApplyToolEvent(ags, events[i]) : ags \in outcomes},
                           events, i + 1)

applyToolEvents(ags, events) ==
  IF Len(events) = 0 THEN {ags}
  ELSE IF NeedsEvents(ags) = {} THEN {ags}
  ELSE ApplyToolEventsFrom({ags}, events, 1)

----------------------------------------------------------------------------
(* gt top emit: the command that appends to the event log *)

\* no run of the command yet
NoEmit == [eventType |-> "", workspace |-> TRUE, rig |-> "", polecat |-> "",
           target |-> "", to |-> "", status |-> "", message |-> ""]

\* events.LogFeed: appends one record to .events.jsonl, or fails and
\* leaves the file as it is
LogFeed(log, eventType, actor, payload, feedOk) ==
  IF feedOk
  THEN [err |-> "", log |-> Append(log, [type |-> eventType, actor |-> actor,
                                           payload |-> payload])]
  ELSE [err |-> "emitting event", log |-> log]

\* the keys of a payload that the command fills from the flags that are set
FlagPayload(a, keys) == {<<k[1], a[k[2]]>> : k \in {k \in keys : a[k[2]] # ""}}

\* the switch of runActivityEmit: the error of a missing flag, or the payload.
\* The payload builders of package events are kept as constructors.
EmitPayload(a) ==
  CASE a.eventType \in {"patrol_started", "patrol_complete"} ->
         IF a.rig = ""
         THEN [err |-> "--rig is required for " \o a.eventType \o " events", payload |-> {}]
         ELSE [err |-> "", payload |-> {<<"PatrolPayload", a.rig, a.message>>}]
    [] a.eventType = "polecat_checked" ->
         IF a.rig = "" \/ a.polecat = ""
         THEN [err |-> "--rig and --polecat are required for polecat_checked events",
               payload |-> {}]
         ELSE [err |-> "",
               payload |-> {<<"PolecatCheckPayload", a.rig, a.polecat,
                              IF a.status = "" THEN "checked" ELSE a.status>>}]
    [] a.eventType = "polecat_nudged" ->
         IF a.rig = "" \/ a.polecat = ""
         THEN [err |-> "--rig and --polecat are required for polecat_nudged events",
               payload |-> {}]
         ELSE [err |-> "", payload |-> {<<"NudgePayload", a.rig, a.polecat>>}]
    [] a.eventType = "escalation_sent" ->
         IF a.rig = "" \/ a.target = "" \/ a.to = ""
         THEN [err |-> "--rig, --target, and --to are required for escalation_sent events",
               payload |-> {}]
         ELSE [err |-> "", payload |-> {<<"EscalationPayload", a.rig, a.target, a.to>>}]
    [] a.eventType \in {"tool_started", "tool_finished"} ->
         [err |-> "",
          payload |-> FlagPayload(a, {<<"tool", "status">>, <<"session", "message">>})]
    [] a.eventType = "agent_idle" ->
         [err |-> "", payload |-> FlagPayload(a, {<<"session", "message">>})]
    [] a.eventType \in {"merge_started", "merged", "merge_failed", "merge_skipped"} ->
         [err |-> "",
          payload |-> FlagPayload(a, {<<"rig", "rig">>, <<"message", "message">>,
                                      <<"branch", "target">>})]
    [] OTHER ->
         [err |-> "",
          payload |-> FlagPayload(a, {<<"rig", "rig">>, <<"polecat", "polecat">>,
                                      <<"target", "target">>, <<"message", "message">>,
                                      <<"status", "status">>, <<"to", "to">>})]

\* a command that validates the flags after the record is written
runActivityEmitWritesFirst(a, actor, feedOk, log) ==
  IF ~a.workspace THEN [err |-> "not in a Gas Town workspace", log |-> log]
  ELSE IF EmitPayload(a).err # ""
    THEN [err |-> EmitPayload(a).err,
          log |-> LogFeed(log, a.eventType, actor, EmitPayload(a).payload, feedOk).log]
  ELSE LogFeed(log, a.eventType, actor, EmitPayload(a).payload, feedOk)

\* runActivityEmit: the error it returns ("" = nil) and the log it leaves
runActivityEmit(a, actor, feedOk, log) ==
  IF ~a.workspace THEN [err |-> "not in a Gas Town workspace", log |-> log]
  ELSE IF EmitPayload(a).err # "" THEN [err |-> EmitPayload(a).err, log |-> log]
  ELSE LogFeed(log, a.eventType, actor, EmitPayload(a).payload, feedOk)

\* one run of gt top emit <eventType> with its flags
Emit(a, actor, feedOk) ==
  /\ Len(eventLog) < MaxLog
  /\ eventLog' = runActivityEmit(a, actor, feedOk, eventLog).log
  /\ emitErr' = runActivityEmit(a, actor, feedOk, eventLog).err
  /\ emitArgs' = a
  /\ UNCHANGED <<pollVars, loopVars, blinkVars, pointerVars, sizeVars, clock, quit, lastMsg>>

----------------------------------------------------------------------------
(* The bubbletea program: Init and Update *)

Init ==
  /\ agents = <<>>
  /\ rigs = <<>>
  /\ counts = ZeroCounts
  /\ townRoot \in {"", "/town"}
  /\ recentToolEvents = <<>>
  /\ clock = 0
  /\ pollCmds = 1
  /\ pollTicks = 0
  /\ lastSessions = <<>>
  /\ parsed = <<>>
  /\ removed = {}
  /\ blinkOn = FALSE
  /\ tickNum = 0
  /\ blinkTicks = 1
  /\ width = 0
  /\ height = 0
  /\ mouseX = 0
  /\ mouseY = 0
  /\ hoveredAgent = ""
  /\ lastClickAgent = ""
  /\ lastClickTime = ZeroTime
  /\ flashMessage = ""
  /\ flashTime = ZeroTime
  /\ quit = FALSE
  /\ lastMsg = ""
  /\ pollErr = FALSE
  /\ repeated = FALSE
  /\ eventLog = <<>>
  /\ emitErr = ""
  /\ emitArgs = NoEmit

\* the model after updateAgents: r is the outcome of the merge of the
\* sessions, events the tool events read from the log
Merged(sessions, r, events) ==
  /\ agents' \in applyToolEvents(r.agents, events)
  /\ rigs' = rebuildRigOrder(agents')
  /\ parsed' = r.parsed
  /\ removed' = r.removed
  /\ counts' = r.c
  /\ recentToolEvents' = events
  /\ lastSessions' = sessions

UpdateAgentsStep(sessions, now, tmux, log) ==
  Merged(sessions, updateAgents(agents, sessions, now, tmux),
         readRecentToolEvents(townRoot, log, now))

\* a handler that keeps the last known collection when the list command failed
SessionsMsgKeepsOnError(tmux, now, log) ==
  /\ ~quit
  /\ pollCmds > 0
  /\ now >= clock
  /\ IF tmux.err
       THEN /\ lastSessions' = <<>>
            /\ UNCHANGED <<agents, rigs, counts, recentToolEvents, parsed, removed>>
       ELSE UpdateAgentsStep(pollSessions(tmux), now, tmux, log)
  /\ pollErr' = tmux.err
  /\ repeated' = (lastSessions' = lastSessions /\ now = clock)
  /\ clock' = now
  /\ pollCmds' = pollCmds - 1
  /\ pollTicks' = pollTicks + 1
  /\ lastMsg' = "sessionsMsg"
  /\ UNCHANGED <<townRoot, blinkVars, pointerVars, sizeVars, quit, emitVars>>

\* Update(sessionsMsg): the poll command has read the tmux server, the
\* merge runs at the instant now and reads the event log, and the poll
\* timer is armed
SessionsMsg(tmux, now, log) ==
  /\ ~quit
  /\ pollCmds > 0
  /\ now >= clock
  /\ UpdateAgentsStep(pollSessions(tmux), now, tmux, log)
  /\ pollErr' = tmux.err
  /\ repeated' = (lastSessions' = lastSessions /\ now = clock)
  /\ clock' = now
  /\ pollCmds' = pollCmds - 1
  /\ pollTicks' = pollTicks + 1
  /\ lastMsg' = "sessionsMsg"
  /\ UNCHANGED <<townRoot, blinkVars, pointerVars, sizeVars, quit, emitVars>>

\* Update(pollMsg): the poll timer fired, the next poll command starts
PollMsg ==
  /\ ~quit
  /\ pollTicks > 0
  /\ pollTicks' = pollTicks - 1
  /\ pollCmds' = pollCmds + 1
  /\ lastMsg' = "pollMsg"
  /\ UNCHANGED <<pollVars, blinkVars, pointerVars, sizeVars, clock, quit, emitVars>>

\* a blink handler that does not arm the timer again
BlinkMsgOnce ==
  /\ ~quit
  /\ blinkTicks > 0
  /\ tickNum < MaxTick
  /\ blinkOn' = ~blinkOn
  /\ tickNum' = tickNum + 1
  /\ blinkTicks' = blinkTicks - 1
  /\ lastMsg' = "blinkMsg"
  /\ UNCHANGED <<pollVars, loopVars, pointerVars, sizeVars, clock, quit, emitVars>>

\* Update(blinkMsg): the blink timer fired; the phase toggles, the tick
\* counter advances and the blink timer is armed again
BlinkMsg ==
  /\ ~quit
  /\ blinkTicks > 0
  /\ tickNum < MaxTick
  /\ blinkOn' = ~blinkOn
  /\ tickNum' = tickNum + 1
  /\ blinkTicks' = (blinkTicks - 1) + 1
  /\ lastMsg' = "blinkMsg"
  /\ UNCHANGED <<pollVars, loopVars, pointerVars, sizeVars, clock, quit, emitVars>>

QuitKeys == {"q", "ctrl+c", "esc"}

\* a key handler in which a key that is no quit key starts a poll
KeyMsgRefreshing(key) ==
  /\ ~quit
  /\ quit' = (key \in QuitKeys)
  /\ pollCmds' = IF key \in QuitKeys THEN pollCmds ELSE pollCmds + 1
  /\ lastMsg' = "KeyMsg"
  /\ UNCHANGED <<pollVars, pollTicks, blinkVars, pointerVars, sizeVars, clock, emitVars>>

\* Update(tea.KeyMsg): a quit key ends the program, any other key does nothing
KeyMsg(key) ==
  /\ ~quit
  /\ quit' = (key \in QuitKeys)
  /\ lastMsg' = "KeyMsg"
  /\ UNCHANGED <<pollVars, loopVars, blinkVars, pointerVars, sizeVars, clock, emitVars>>

\* Update(tea.WindowSizeMsg)
WindowSizeMsg(w, h) ==
  /\ ~quit
  /\ width' = w
  /\ height' = h
  /\ lastMsg' = "WindowSizeMsg"
  /\ UNCHANGED <<pollVars, loopVars, blinkVars, pointerVars, clock, quit, emitVars>>

\* agentAtY and the loop of updateHoveredAgent: the first record whose
\* rendered rows hold the row y.  The rows are assigned by View, which is
\* not part of this model: hit is the position of that record in the
\* collection, 0 when no record is drawn at y.
agentAtY(hit) == IF hit = 0 THEN "" ELSE agents[hit].SessionName

\* the messages that openTerminalWithTmuxAttach can leave, by how far the
\* search for a terminal gets
FlashMessages(sessionName) ==
  { "tmux not found",
    "Opened iTerm2 → " \o sessionName,
    "Opened Terminal → " \o sessionName,
    "Opened terminal → " \o sessionName,
    "Could not open terminal" }

\* a left-button press: the second press on the same record within the
\* double-click window opens a terminal, any other press is remembered
LeftPress(clicked, now) ==
  IF clicked # "" /\ clicked = lastClickAgent
     /\ (now - lastClickTime) * 1000 < DoubleClickMs
  THEN /\ lastClickAgent' = ""
       /\ flashMessage' \in FlashMessages(clicked)
       /\ flashTime' = now
       /\ UNCHANGED lastClickTime
  ELSE /\ lastClickAgent' = clicked
       /\ lastClickTime' = now
       /\ UNCHANGED <<flashMessage, flashTime>>

\* Update(tea.MouseMsg)
MouseMsg(x, y, hit, press, now) ==
  /\ ~quit
  /\ now >= clock
  /\ hit \in 0..Len(agents)
  /\ hit # 0 => y > 0
  /\ mouseX' = x
  /\ mouseY' = y
  /\ hoveredAgent' = agentAtY(hit)
  /\ IF press THEN LeftPress(agentAtY(hit), now)
     ELSE UNCHANGED <<lastClickAgent, lastClickTime, flashMessage, flashTime>>
  /\ clock' = now
  /\ lastMsg' = "MouseMsg"
  /\ UNCHANGED <<pollVars, loopVars, blinkVars, sizeVars, quit, emitVars>>

----------------------------------------------------------------------------
(* Scenarios: the tmux servers, instants and event logs the polls meet *)

Optional(x) == {<<>>, <<x>>}

Pick(lines, mask) ==
  LET keep(i) == i \in mask
      idx == SelectSeq([i \in 1..Len(lines) |-> i], keep)
  IN  [k \in 1..Len(idx) |-> lines[idx[k]]]

SubPanes(lines) == {Pick(lines, mask) : mask \in SUBSET (1..Len(lines))}

NoCapture == [ok |-> FALSE, out |-> <<>>]
NoEnv == [ok |-> FALSE, out |-> ""]
NoLog == [readable |-> FALSE, lines |-> <<>>]
DownServer == [err |-> TRUE, list |-> <<>>, capture |-> <<>>, env |-> <<>>]

\* Session lists: the sessions "gt-a", "gt-a|2", "gt-b" and "main" come and
\* go; a session name may hold the separator of the listing format.
FleetListings ==
  { a \o a2 \o b :
      a  \in {<<>>, <<"gt-a|1">>, <<"gt-a|2">>},
      a2 \in Optional("gt-a|2|1"),
      b  \in {<<>>, <<"gt-b|1">>, <<"gt-b|2">>} }
  \cup { a \o <<"main|1">> : a \in {<<>>, <<"gt-a|1">>, <<"gt-b|2">>} }

FleetProbes ==
  { [capture |-> [t \in {"gt-a", "gt-b"} |-> NoCapture],
     env     |-> [t \in {"gt-a", "gt-b"} |-> NoEnv]],
    [capture |-> [t \in {"gt-a", "gt-b"} |-> [ok |-> TRUE, out |-> <<ShellLine>>]],
     env     |-> [t \in {"gt-a", "gt-b"} |->
                    IF t = "gt-b" THEN [ok |-> TRUE, out |-> "GT_AGENT=opencode"]
                    ELSE NoEnv]] }

FleetServers ==
  {DownServer} \cup
  { [err |-> FALSE, list |-> l, capture |-> p.capture, env |-> p.env] :
      l \in FleetListings, p \in FleetProbes }

FleetInstants == 0..MaxClock

\* Panes: one session whose pane shows any of a hard cap, a temporary rate
\* limit and a prompt, met at the instants around the level thresholds.

LevelPanes == SubPanes(<<HitLine, RateLine, WaitLine>>)

PaneServers(listings, panes, envs) ==
  { [err |-> FALSE, list |-> l, capture |-> [t \in {"gt-a"} |-> c],
     env |-> [t \in {"gt-a"} |-> e]] :
      l \in listings,
      c \in {NoCapture} \cup {[ok |-> TRUE, out |-> p] : p \in panes},
      e \in envs }

LevelServers ==
  PaneServers({<<>>, <<"gt-a|1">>, <<"gt-a|2">>}, LevelPanes,
              {NoEnv, [ok |-> TRUE, out |-> "GT_AGENT=opencode"]})

LevelInstants == {0, 1, 3, 6, 30, 120, 300}

\* Tools: one session whose pane shows tool lines, a hard cap and a prompt,
\* with tool events of that session in the log.
ToolPanes ==
  { <<>>, <<ToolLine>>, <<GrepLine>>, <<WaitLine>>, <<ToolLine, HitLine>>,
    <<GrepLine, HitLine>>, <<ToolLine, HitLine, WaitLine>> }

ToolServers ==
  PaneServers({<<>>, <<"gt-a|1">>}, ToolPanes,
              {NoEnv, [ok |-> TRUE, out |-> "GT_AGENT=opencode"],
                      [ok |-> TRUE, out |-> "GT_AGENT=gemini"]})

ToolInstants == {0, 15, 16}

StartedLine == [json |-> TRUE, ts |-> 0, type |-> "tool_started", actor |-> "rig/crew/a",
                tool |-> "Bash(make)", session |-> "gt-a"]
FinishedLine == [json |-> TRUE, ts |-> 10, type |-> "tool_finished", actor |-> "rig/crew/a",
                 tool |-> "Bash", session |-> "gt-a"]

\* a later event of the same agent that names no session
RestartedLine == [json |-> TRUE, ts |-> 12, type |-> "tool_started", actor |-> "rig/crew/a",
                  tool |-> "Read(model.go)", session |-> ""]
\* an event of an agent that has no session here
OtherLine == [json |-> TRUE, ts |-> 12, type |-> "tool_started", actor |-> "rig/crew/z",
              tool |-> "Edit(x.go)", session |-> "gt-z"]
\* an event that names a session that is not here, from an actor whose
\* last segment occurs in the name of the session that is
StrayLine == [json |-> TRUE, ts |-> 12, type |-> "tool_started", actor |-> "rig/crew/a",
              tool |-> "Write(notes.md)", session |-> "gt-z"]
\* lines that are no tool events: another type, no timestamp, no JSON
PatrolLine == [json |-> TRUE, ts |-> 12, type |-> "patrol_started", actor |-> "rig/crew/a",
               tool |-> "Sweep", session |-> "gt-a"]
UndatedLine == [json |-> TRUE, ts |-> -1, type |-> "tool_started", actor |-> "rig/crew/a",
                tool |-> "Undated", session |-> "gt-a"]
BrokenLine == [json |-> FALSE, ts |-> 12, type |-> "tool_started", actor |-> "rig/crew/a",
               tool |-> "Broken", session |-> "gt-a"]

ToolLogs ==
  {NoLog} \cup {[readable |-> TRUE, lines |-> l] :
                  l \in { <<StartedLine, FinishedLine>>,
                          <<StartedLine, FinishedLine, RestartedLine>>,
                          <<StartedLine, OtherLine, PatrolLine, UndatedLine, BrokenLine>>,
                          <<StrayLine>> }}

\* Sticky fields and the dialect: one session whose pane shows session-limit
\* warnings, context readings, compaction and the signature of either dialect.
StickyPanes ==
  { <<>>, <<SessionLine>>, <<SessionLine80>>, <<SessionLine0>>, <<ContextLine>>,
    <<CompactingLine>>, <<CompactToolLine>>, <<ContextLine, CompactingLine>>,
    <<SignLine>>, <<UsageLine>>, <<SignLine, UsageLine>>, <<HitLine, SessionLine>>,
    <<WaitLine, ContextLine>> }

StickyServers ==
  PaneServers({<<>>, <<"gt-a|1">>}, StickyPanes,
              {NoEnv, [ok |-> TRUE, out |-> "GT_AGENT=opencode"]})

StickyInstants == {0, 1}

\* Timers: one session that comes and goes, while the blink timer fires and
\* keys, pointer events and resizes arrive.
TimerServers ==
  { DownServer,
    [err |-> FALSE, list |-> <<"gt-a|1">>,
     capture |-> [t \in {"gt-a"} |-> [ok |-> TRUE, out |-> <<ShellLine>>]],
     env |-> [t \in {"gt-a"} |-> NoEnv]] }

TimerInstants == {0, 1}

Keys == QuitKeys \cup {"j"}

PointerRows == {0, 1}

\* Counters: two sessions whose panes show a hard cap, a rate limit or a
\* prompt, polled at instants that put their records at different levels.
CountPanes == {<<>>, <<HitLine>>, <<RateLine>>, <<WaitLine>>}

CountServers ==
  { [err |-> FALSE, list |-> l,
     capture |-> [t \in {"gt-a", "gt-b"} |->
                    [ok |-> TRUE, out |-> IF t = "gt-a" THEN pa ELSE pb]],
     env |-> [t \in {"gt-a", "gt-b"} |-> NoEnv]] :
      l \in {<<>>, <<"gt-a|1">>, <<"gt-a|1", "gt-b|1">>},
      pa \in CountPanes, pb \in CountPanes }

CountInstants == {0, 6, 120, 300}

\* Names: sessions of every role pattern, and one of none, come and go
NameLines ==
  << "gt-a|1", "gt-r-witness|1", "gt-r-refinery|1", "gt-r-crew-bob|1",
     "gt-r-deacon-rex|1", "gt-r-toast|1", "gt-dog-rex|1", "hq-mayor|1", "hq-deacon|1" >>

NameListings ==
  {<<>>} \cup {<<NameLines[i]>> : i \in 1..Len(NameLines)}
    \cup {<<NameLines[p[1]], NameLines[p[2]]>> :
            p \in {q \in (1..Len(NameLines)) \X (1..Len(NameLines)) : q[1] < q[2]}}

NameServers ==
  { [err |-> FALSE, list |-> l, capture |-> [t \in KnownNames |-> NoCapture],
     env |-> [t \in KnownNames |-> NoEnv]] : l \in NameListings }

\* Parsing: one Claude session whose pane shows prompts, status lines, noise
\* and chrome at every distance from the bottom.  The captured lines of a
\* pane end with the empty string that follows the last newline.
Noise(n) == [i \in 1..n |-> NoiseLine]

ClaudePanes ==
  { <<>>, <<PermitLine>>, <<NoiseLine>>, <<SpinLine>>,
    <<NoiseLine, PermitLine, RuleLine, BarLine>>,
    <<PermitLine, SpinLine>>, <<SpinLine, PermitLine>>, <<SpinLine, NoiseLine>>,
    <<PermitLine>> \o Noise(7), <<PermitLine>> \o Noise(8),
    <<SpinLine>> \o Noise(7), <<SpinLine>> \o Noise(8),
    <<PermitLine, RuleLine>> \o Noise(7) \o <<BarLine>>,
    <<SpinLine, BarLine>>, <<NoiseLine, BarLine>>, <<PermitLine, BarLine>>, <<BarLine>>,
    <<RateLine>>, <<RateLine, NoiseLine>>, <<RateLine, NoiseLine, NoiseLine>>,
    <<HitLine, RateLine>>, <<RateLine, HitLine>>, <<LongPermitLine>> }

\* Panes of the secondary dialect: every signal of the priority chain with
\* the header, next to the signal just above it, above and below it
OpenCodePanes ==
  { <<NoiseLine>>, <<HeaderLine>>, <<FramedSubLine>>, <<FramedCmdLine>>,
    <<HeaderLine, FramedSubLine>>, <<HeaderLine, FramedCmdLine>>,
    <<HeaderLine, FramedCmdLine, FramedSubLine>>,
    <<HeaderLine, FramedSubLine, FramedCmdLine>>,
    <<HeaderLine, FramedSubLine, BrailleLine>>,
    <<HeaderLine, BrailleLine, PendingLine>>,
    <<HeaderLine, PendingLine, ShellLine>>,
    <<HeaderLine, ShellLine, SubLine>>,
    <<HeaderLine, SubLine, GrepLine>>,
    <<GrepLine, BrailleLine, HeaderLine>>, <<SubLine, PendingLine, FramedSubLine>> }

OpenCodeServers ==
  PaneServers({<<>>, <<"gt-a|1">>}, OpenCodePanes,
              {[ok |-> TRUE, out |-> "GT_AGENT=opencode"]})

ParseServers == PaneServers({<<>>, <<"gt-a|1">>}, ClaudePanes, {NoEnv})

ParseInstants == {0}

\* Runs of gt top emit: every event type with a check, one without, and
\* every combination of the four flags that the checks read
EmitTypes ==
  {"patrol_started", "patrol_complete", "polecat_checked", "polecat_nudged",
   "escalation_sent", "tool_started"}

EmitRuns ==
  { [eventType |-> t, workspace |-> w, rig |-> r, polecat |-> p, target |-> g, to |-> o,
     status |-> "", message |-> ""] :
      t \in EmitTypes, w \in BOOLEAN, r \in {"", "gastown"}, p \in {"", "nux"},
      g \in {"", "gt-a"}, o \in {"", "mayor"} }

----------------------------------------------------------------------------
(* Specifications.  The scenarios of the merge follow the poll loop alone:  *)
(* the other messages leave the collection, the counters and the loop as   *)
(* they are, which SpecTimers establishes.                                 *)

Next ==
  \/ \E tmux \in FleetServers, now \in FleetInstants : SessionsMsg(tmux, now, NoLog)
  \/ PollMsg

Spec == Init /\ [][Next]_vars

NextLevels ==
  \/ \E tmux \in LevelServers, now \in LevelInstants : SessionsMsg(tmux, now, NoLog)
  \/ PollMsg

SpecLevels == Init /\ [][NextLevels]_vars

\* Prompts: the session of the level scenarios, met at instants around the
\* debounce of 5 seconds.
WaitServers ==
  PaneServers({<<>>, <<"gt-a|1">>, <<"gt-a|2">>}, LevelPanes, {NoEnv})

WaitInstants == {0, 5, 6, 12}

NextWaiting ==
  \/ \E tmux \in WaitServers, now \in WaitInstants : SessionsMsg(tmux, now, NoLog)
  \/ PollMsg

\* the polls continue and the wall clock moves on: a fired poll timer
\* always issues the next poll command (tea.Tick), and a poll is always
\* followed, a second later, by another one at a later instant
SpecWaitingFair ==
  /\ Init /\ [][NextWaiting]_vars
  /\ WF_vars(PollMsg)
  /\ SF_vars(\E tmux \in WaitServers, now \in WaitInstants :
               now > clock /\ SessionsMsg(tmux, now, NoLog))

NextTools ==
  \/ \E tmux \in ToolServers, now \in ToolInstants, log \in ToolLogs :
       SessionsMsg(tmux, now, log)
  \/ PollMsg

SpecTools == Init /\ [][NextTools]_vars

NextPanes ==
  \/ \E tmux \in StickyServers, now \in StickyInstants : SessionsMsg(tmux, now, NoLog)
  \/ PollMsg

SpecPanes == Init /\ [][NextPanes]_vars

NextTimers ==
  \/ \E tmux \in TimerServers, now \in TimerInstants : SessionsMsg(tmux, now, NoLog)
  \/ PollMsg
  \/ BlinkMsg
  \/ \E key \in Keys : KeyMsg(key)
  \/ \E y \in PointerRows, hit \in 0..1, press \in BOOLEAN, now \in TimerInstants :
       MouseMsg(0, y, hit, press, now)
  \/ WindowSizeMsg(80, 24)

SpecTimers == Init /\ [][NextTimers]_vars

NextParse ==
  \/ \E tmux \in ParseServers, now \in ParseInstants : SessionsMsg(tmux, now, NoLog)
  \/ PollMsg

SpecParse == Init /\ [][NextParse]_vars

NextOpenCode ==
  \/ \E tmux \in OpenCodeServers, now \in ParseInstants : SessionsMsg(tmux, now, NoLog)
  \/ PollMsg

SpecOpenCode == Init /\ [][NextOpenCode]_vars

NextNames ==
  \/ \E tmux \in NameServers, now \in ParseInstants : SessionsMsg(tmux, now, NoLog)
  \/ PollMsg

SpecNames == Init /\ [][NextNames]_vars

\* Pairs: two sessions of either dialect, the name of each holding the last
\* segment of the actor of the events, with events that name no session of
\* the collection in the log.
PairServers ==
  { [err |-> FALSE, list |-> l,
     capture |-> [t \in {"gt-a", "gt-r-toast"} |-> [ok |-> TRUE, out |-> <<>>]],
     env |-> [t \in {"gt-a", "gt-r-toast"} |-> IF t = "gt-a" THEN ea ELSE eb]] :
      l \in {<<>>, <<"gt-a|1">>, <<"gt-a|1", "gt-r-toast|1">>},
      ea \in {NoEnv, [ok |-> TRUE, out |-> "GT_AGENT=opencode"]},
      eb \in {NoEnv, [ok |-> TRUE, out |-> "GT_AGENT=opencode"]} }

PairLogs ==
  {NoLog} \cup {[readable |-> TRUE, lines |-> l] :
                  l \in { <<StartedLine>>, <<RestartedLine>>, <<StrayLine>>,
                          <<StartedLine, RestartedLine>> }}

SpecPairs ==
  Init /\ [][\/ \E tmux \in PairServers, now \in ToolInstants, log \in PairLogs :
                  SessionsMsg(tmux, now, log)
             \/ PollMsg]_vars

NextCounts ==
  \/ \E tmux \in CountServers, now \in CountInstants : SessionsMsg(tmux, now, NoLog)
  \/ PollMsg

SpecCounts == Init /\ [][NextCounts]_vars

NextEmit ==
  \E a \in EmitRuns, feedOk \in BOOLEAN : Emit(a, "gastown/witness", feedOk)

SpecEmit == Init /\ [][NextEmit]_vars

----------------------------------------------------------------------------
(* Properties of the merge: membership and activity timestamps (Spec) *)

\* a step of Update(sessionsMsg), the only step that runs updateAgents
MergeStep == pollTicks' = pollTicks + 1

\* the timestamps that a session list reports for a session name
Reported(sessions, name) ==
  {sessions[i].activity : i \in {i \in 1..Len(sessions) : sessions[i].name = name}}

\* C1: after every merge the agent collection holds a record for a session
\* identifier if and only if the poll's list names it; the record of a
\* session that the list does not name is dropped by that same merge.
C1_MembershipFollowsPoll ==
  /\ NamesOf(agents) = {lastSessions[i].name : i \in 1..Len(lastSessions)}
  /\ removed \cap NamesOf(agents) = {}

\* a merge has dropped the record of one session and kept another
C1_Witness == removed # {} /\ agents # <<>>

\* C2: in every reachable state the agent collection holds at most one
\* record per session identifier, also after a poll whose list names the
\* same session twice.
C2_OneRecordPerSession ==
  \A i, j \in 1..Len(agents) :
    agents[i].SessionName = agents[j].SessionName => i = j

\* the last list named a session twice and the session has its record
C2_Witness ==
  \E i, j \in 1..Len(lastSessions) :
    /\ i < j
    /\ lastSessions[i].name = lastSessions[j].name
    /\ lastSessions[i].name \in NamesOf(agents)

\* C3: for every record that existed before a merge and that the list
\* names, PrevActivity after the merge is the CurActivity held before it
\* and CurActivity is the reported timestamp; a record created in the merge
\* starts with PrevActivity = CurActivity = the reported timestamp.
C3_ShiftRegister ==
  [][MergeStep =>
       \A k \in 1..Len(agents') :
         LET a   == agents'[k]
             old == {j \in 1..Len(agents) : agents[j].SessionName = a.SessionName}
         IN  /\ a.CurActivity \in Reported(lastSessions', a.SessionName)
             /\ \A j \in old : a.PrevActivity = agents[j].CurActivity
             /\ old = {} => a.PrevActivity = a.CurActivity]_vars

\* C4: for a record that existed before the merge, LastChangeTime becomes
\* the merge's clock reading when a timestamp that the poll reports for the
\* session differs from the CurActivity held before the merge, and is left
\* unchanged when the reported timestamp is the same.
C4_ChangeTimeFrame ==
  [][MergeStep =>
       \A k \in 1..Len(agents'), j \in 1..Len(agents) :
         agents[j].SessionName = agents'[k].SessionName =>
           IF \E t \in Reported(lastSessions', agents[j].SessionName) :
                t # agents[j].CurActivity
           THEN agents'[k].LastChangeTime = clock'
           ELSE agents'[k].LastChangeTime = agents[j].LastChangeTime]_vars

\* one record was stamped by the merge that changed its timestamp, another
\* kept the change time of an earlier merge
C4_Witness ==
  \E i, j \in 1..Len(agents) :
    /\ agents[i].PrevActivity # agents[i].CurActivity
    /\ agents[i].LastChangeTime = clock
    /\ agents[j].PrevActivity = agents[j].CurActivity
    /\ agents[j].LastChangeTime < clock

----------------------------------------------------------------------------
(* Properties of the level loop (SpecLevels) and of the current tool       *)
(* (SpecTools).  parsed[k] holds the flags as the pane parser set them in  *)
(* the last merge, agents[k] the record at the end of that merge, and the  *)
(* merge ran at the instant clock.                                         *)

\* time since the last change of the k-th agent, at the last merge
Elapsed(k) == clock - parsed[k].LastChangeTime

\* the level that the stated thresholds give an elapsed time
LevelByAge(e) ==
  IF e < 3 THEN LevelActive
  ELSE IF e < 30 THEN LevelRecent
  ELSE IF e < 120 THEN LevelWarm
  ELSE IF e < 300 THEN LevelCool
  ELSE LevelCold

\* C5: each merge gives every agent one level by a fixed priority:
\* WaitingForHuman when the waiting flag is set and more than 5 s have
\* elapsed since the last change; otherwise HitLimit when the hard-cap flag
\* is set; otherwise the time-based level, replaced by RateLimited only
\* when the rate-limited flag is set and that level is Warm, Cool or Cold.
C5_LevelPriority ==
  \A k \in 1..Len(agents) :
    agents[k].Level =
      IF parsed[k].WaitingForHuman /\ Elapsed(k) > 5 THEN LevelWaitingForHuman
      ELSE IF parsed[k].HitLimit THEN LevelHitLimit
      ELSE IF parsed[k].RateLimited
              /\ LevelByAge(Elapsed(k)) \in {LevelWarm, LevelCool, LevelCold}
        THEN LevelRateLimited
      ELSE LevelByAge(Elapsed(k))

\* a pane with a prompt and a hard cap, long idle: the prompt wins
C5_Witness ==
  \E k \in 1..Len(agents) :
    /\ parsed[k].WaitingForHuman
    /\ parsed[k].HitLimit
    /\ Elapsed(k) > 5
    /\ agents[k].Level = LevelWaitingForHuman

\* C6 as stated: a prompt in the pane with 5 s or less since the last
\* change has its waiting flag cleared and the agent gets the ordinary
\* time-based level (Active under 3 s, Recent otherwise).
C6_DebounceGivesTimeLevel ==
  \A k \in 1..Len(agents) :
    (parsed[k].WaitingForHuman /\ Elapsed(k) <= 5) =>
      /\ ~agents[k].WaitingForHuman
      /\ agents[k].Level = (IF Elapsed(k) < 3 THEN LevelActive ELSE LevelRecent)

\* C6: a prompt in the pane with 5 s or less since the last change has its
\* waiting flag cleared and the agent gets HitLimit if its hard-cap flag is
\* set, otherwise the ordinary time-based level (Active under 3 s, Recent
\* otherwise); never WaitingForHuman.
C6_DebounceFallsThrough ==
  \A k \in 1..Len(agents) :
    (parsed[k].WaitingForHuman /\ Elapsed(k) <= 5) =>
      /\ ~agents[k].WaitingForHuman
      /\ agents[k].Level =
           IF parsed[k].HitLimit THEN LevelHitLimit
           ELSE IF Elapsed(k) < 3 THEN LevelActive
           ELSE LevelRecent

\* a prompt seen exactly 5 s after the last change: cleared, level Recent
C6_Witness ==
  \E k \in 1..Len(agents) :
    /\ parsed[k].WaitingForHuman
    /\ Elapsed(k) = 5
    /\ ~agents[k].WaitingForHuman
    /\ agents[k].Level = LevelRecent

\* C7 as stated: an agent whose hard-cap flag the parser set ends the merge
\* with level HitLimit, whatever the elapsed time.
C7_HitLimitAlways ==
  \A k \in 1..Len(agents) :
    parsed[k].HitLimit => agents[k].Level = LevelHitLimit

\* C7: an agent whose hard-cap flag the parser set ends the merge with
\* level HitLimit whatever the elapsed time, unless its waiting flag is
\* also set and more than 5 s have elapsed, when it is WaitingForHuman.
C7_HitLimitUnlessWaiting ==
  \A k \in 1..Len(agents) :
    parsed[k].HitLimit =>
      agents[k].Level =
        IF parsed[k].WaitingForHuman /\ Elapsed(k) > 5 THEN LevelWaitingForHuman
        ELSE LevelHitLimit

\* a hard cap on an agent idle for five minutes: HitLimit, not Cold
C7_Witness ==
  \E k \in 1..Len(agents) :
    /\ parsed[k].HitLimit
    /\ Elapsed(k) >= 300
    /\ agents[k].Level = LevelHitLimit

\* C8: an agent whose hard-cap flag is set in a poll has an empty current
\* tool at the end of that merge, for either dialect, whatever else the
\* pane shows and whatever tool events are recent.
C8_HitLimitClearsTool ==
  \A k \in 1..Len(agents) :
    parsed[k].HitLimit => agents[k].CurrentTool = ""

\* C9: with no override flag set the level is a function of the elapsed
\* time only: Active under 3 s, Recent from 3 s to under 30 s, Warm from
\* 30 s to under 2 min, Cool from 2 min to under 5 min, Cold from 5 min;
\* 3 s, 30 s, 120 s and 300 s belong to the later level.
C9_TimeLevels ==
  \A k \in 1..Len(agents) :
    (~parsed[k].WaitingForHuman /\ ~parsed[k].HitLimit /\ ~parsed[k].RateLimited) =>
      /\ Elapsed(k) < 3 => agents[k].Level = LevelActive
      /\ (3 <= Elapsed(k) /\ Elapsed(k) < 30) => agents[k].Level = LevelRecent
      /\ (30 <= Elapsed(k) /\ Elapsed(k) < 120) => agents[k].Level = LevelWarm
      /\ (120 <= Elapsed(k) /\ Elapsed(k) < 300) => agents[k].Level = LevelCool
      /\ 300 <= Elapsed(k) => agents[k].Level = LevelCold

\* no flag and exactly 30 s since the last change: Warm
C9_Witness ==
  \E k \in 1..Len(agents) :
    /\ ~parsed[k].WaitingForHuman /\ ~parsed[k].HitLimit /\ ~parsed[k].RateLimited
    /\ Elapsed(k) = 30
    /\ agents[k].Level = LevelWarm

\* C10 as stated: RateLimited is given only to an agent whose rate-limited
\* flag is set and whose time-based level is Warm, Cool or Cold; an agent
\* whose last change is less than 30 s old keeps Active or Recent even
\* when its rate-limited flag is set.
C10_FreshKeepsTimeLevel ==
  \A k \in 1..Len(agents) :
    /\ agents[k].Level = LevelRateLimited =>
         /\ parsed[k].RateLimited
         /\ LevelByAge(Elapsed(k)) \in {LevelWarm, LevelCool, LevelCold}
    /\ (parsed[k].RateLimited /\ Elapsed(k) < 30) =>
         agents[k].Level \in {LevelActive, LevelRecent}

\* C10: RateLimited is given only to an agent whose rate-limited flag is
\* set and whose time-based level is Warm, Cool or Cold; an agent whose
\* last change is less than 30 s old is never RateLimited and, unless the
\* waiting-for-human or the hard-cap override applies, keeps Active or
\* Recent even when its rate-limited flag is set.
C10_FreshNeverRateLimited ==
  \A k \in 1..Len(agents) :
    /\ agents[k].Level = LevelRateLimited =>
         /\ parsed[k].RateLimited
         /\ LevelByAge(Elapsed(k)) \in {LevelWarm, LevelCool, LevelCold}
    /\ (parsed[k].RateLimited /\ Elapsed(k) < 30) =>
         /\ agents[k].Level # LevelRateLimited
         /\ ~(parsed[k].WaitingForHuman /\ Elapsed(k) > 5) /\ ~parsed[k].HitLimit
              => agents[k].Level \in {LevelActive, LevelRecent}

\* a rate-limit line in the pane of an agent that changed 29 s ago: Recent
C10_Witness ==
  \E k \in 1..Len(agents) :
    /\ parsed[k].RateLimited
    /\ Elapsed(k) = 29
    /\ agents[k].Level = LevelRecent

----------------------------------------------------------------------------
(* Properties of repeated merges (SpecLevels) *)

\* the level, the override flags and the pane-derived fields of a record
PaneFields(a) ==
  [ Level |-> a.Level, WaitingForHuman |-> a.WaitingForHuman,
    WaitingReason |-> a.WaitingReason, RateLimited |-> a.RateLimited,
    HitLimit |-> a.HitLimit, LimitResetInfo |-> a.LimitResetInfo,
    StatusText |-> a.StatusText, CurrentTool |-> a.CurrentTool,
    ContextPercent |-> a.ContextPercent, SessionLimitPct |-> a.SessionLimitPct,
    SessionLimitReset |-> a.SessionLimitReset ]

\* C11: a merge of the session list that the merge before it got, at the
\* same clock reading, leaves the level, the flags and the pane-derived
\* fields of every agent and all the counters as the first merge left them.
C11_RepeatedMergeChangesNothing ==
  [][MergeStep /\ lastSessions' = lastSessions /\ clock' = clock =>
       /\ counts' = counts
       /\ Len(agents') = Len(agents)
       /\ \A k \in 1..Len(agents) : PaneFields(agents'[k]) = PaneFields(agents[k])]_vars

\* a repeated merge has counted an agent that is in an override level
C11_Witness ==
  /\ repeated
  /\ \E k \in 1..Len(agents) : agents[k].Level = LevelHitLimit
  /\ counts.hitLimitCount = 1
  /\ counts.totalAgents = 1

----------------------------------------------------------------------------
(* Properties of the dialect and of the sticky fields (SpecPanes) *)

\* the pane lines that the last poll captured for a session
LastPane(sessions, name) == IF name \in Seen(sessions) THEN PaneMap(sessions, name) ELSE <<>>

\* C12: once the dialect of a record is not empty it never changes while
\* the record lives, whatever the panes of later polls show.
C12_DialectIsCached ==
  [][\A j \in 1..Len(agents), k \in 1..Len(agents') :
       agents[j].SessionName = agents'[k].SessionName /\ agents[j].AgentType # ""
         => agents'[k].AgentType = agents[j].AgentType]_vars

\* a record of the primary dialect whose pane now shows the signature of
\* the secondary dialect
C12_Witness ==
  \E k \in 1..Len(agents) :
    /\ agents[k].AgentType = "claude"
    /\ \E i \in 1..Len(LastPane(lastSessions, agents[k].SessionName)) :
         SignatureTable[LastPane(lastSessions, agents[k].SessionName)[i]]

\* the pane shows a session-limit warning with a percent in 1..100
ShowsSessionLimit(lines) ==
  \E i \in 1..Len(lines) :
    /\ ClaudeFactsTable[lines[i]].sessionAnchor
    /\ ClaudeFactsTable[lines[i]].sessionLimit.pct \in 1..100

\* the pane shows the positive context reading pct, in either dialect
ShowsContext(lines, pct) ==
  /\ pct > 0
  /\ \E i \in 1..Len(lines) :
       \/ ClaudeFactsTable[lines[i]].contextAnchor
            /\ ClaudeFactsTable[lines[i]].contextPct = pct
       \/ OpenCodeFactsTable[lines[i]].contextPct = pct

\* the pane shows a compaction: a tool of that name or the status of one
ShowsCompaction(lines) ==
  \E i \in 1..Len(lines) :
    \/ ClaudeFactsTable[lines[i]].compactTool
    \/ HasPrefix(ClaudeFactsTable[lines[i]].status, "COMPACTING")

\* C13: across a merge the session-usage percent and its reset time of a
\* record change only if the pane of that poll shows a session-limit warning
\* with a percent in 1..100, and its context percent changes only to a
\* positive reading of that pane or to 0 when the pane shows a compaction;
\* in every other poll, also one without pane lines, they stay as they were.
C13_StickyFieldsFrame ==
  [][MergeStep =>
       \A j \in 1..Len(agents), k \in 1..Len(agents') :
         agents[j].SessionName = agents'[k].SessionName =>
           /\ (\/ agents'[k].SessionLimitPct # agents[j].SessionLimitPct
               \/ agents'[k].SessionLimitReset # agents[j].SessionLimitReset)
                => ShowsSessionLimit(LastPane(lastSessions', agents[j].SessionName))
           /\ agents'[k].ContextPercent # agents[j].ContextPercent
                => \/ ShowsContext(LastPane(lastSessions', agents[j].SessionName),
                                   agents'[k].ContextPercent)
                   \/ /\ agents'[k].ContextPercent = 0
                      /\ ShowsCompaction(LastPane(lastSessions', agents[j].SessionName))]_vars

\* the sticky fields of a record have outlived a poll without pane lines
C13_Witness ==
  \E k \in 1..Len(agents) :
    /\ LastPane(lastSessions, agents[k].SessionName) = <<>>
    /\ agents[k].SessionLimitPct = 95
    /\ agents[k].SessionLimitReset # ""
    /\ agents[k].ContextPercent = 20

----------------------------------------------------------------------------
(* Properties of the fields that every parse resets (SpecTools) *)

\* the fields that every parse resets
NonSticky(a) ==
  [ StatusText |-> a.StatusText, WaitingForHuman |-> a.WaitingForHuman,
    WaitingReason |-> a.WaitingReason, RateLimited |-> a.RateLimited,
    HitLimit |-> a.HitLimit, LimitResetInfo |-> a.LimitResetInfo,
    CurrentTool |-> a.CurrentTool ]

\* a record whose reset fields hold values that no poll of it produced
Stale(a) ==
  [a EXCEPT !.StatusText = "stale", !.WaitingForHuman = TRUE, !.WaitingReason = "stale",
            !.RateLimited = TRUE, !.HitLimit = TRUE, !.LimitResetInfo = "stale",
            !.CurrentTool = "stale"]

\* what the last poll alone gives: every record parsed again from stale
\* fields with the pane lines of the last poll
Reparsed ==
  [k \in 1..Len(agents) |->
     parsePaneContent(Stale(agents[k]), LastPane(lastSessions, agents[k].SessionName))]

NoFields ==
  [ StatusText |-> "", WaitingForHuman |-> FALSE, WaitingReason |-> "",
    RateLimited |-> FALSE, HitLimit |-> FALSE, LimitResetInfo |-> "",
    CurrentTool |-> "" ]

\* the record of a session of the last poll holds a timestamp of that poll
Listed(k) ==
  /\ agents[k].SessionName \in Seen(lastSessions)
  /\ agents[k].CurActivity \in Reported(lastSessions, agents[k].SessionName)

\* C14 as stated: after a merge the reset fields of every record are what
\* the pane lines of that poll and the recent tool events give, whatever
\* the fields held before; a session without pane lines is in the
\* collection with the timestamp of the poll and all these fields empty.
C14_FieldsFromThisPoll ==
  /\ \E out \in applyToolEvents(Reparsed, recentToolEvents) :
       \A k \in 1..Len(agents) : NonSticky(agents[k]) = NonSticky(out[k])
  /\ \A i \in 1..Len(lastSessions) :
       lastSessions[i].paneLines = <<>> =>
         \E k \in 1..Len(agents) :
           /\ agents[k].SessionName = lastSessions[i].name
           /\ Listed(k)
           /\ NonSticky(agents[k]) = NoFields

\* C14, amended: the waiting flag is, in addition, cleared by the debounce
\* of the level loop, and the current tool of a session without pane
\* lines is what the recent tool events give.
C14_FieldsFromThisPollAndDebounce ==
  /\ \E out \in applyToolEvents(Reparsed, recentToolEvents) :
       \A k \in 1..Len(agents) :
         /\ [NonSticky(agents[k]) EXCEPT !.WaitingForHuman = FALSE]
              = [NonSticky(out[k]) EXCEPT !.WaitingForHuman = FALSE]
         /\ agents[k].WaitingForHuman
              = (out[k].WaitingForHuman /\ clock - agents[k].LastChangeTime > WaitDebounce)
  /\ \A i \in 1..Len(lastSessions) :
       lastSessions[i].paneLines = <<>> =>
         \E k \in 1..Len(agents) :
           /\ agents[k].SessionName = lastSessions[i].name
           /\ Listed(k)
           /\ [NonSticky(agents[k]) EXCEPT !.CurrentTool = ""] = NoFields
           /\ agents[k].CurrentTool # "" =>
                \E e \in 1..Len(recentToolEvents) :
                  recentToolEvents[e].Tool = agents[k].CurrentTool

\* a record that showed a tool and a hard cap, in a poll that captured no
\* pane lines for it
C14_Witness ==
  \E k \in 1..Len(agents), i \in 1..Len(lastSessions) :
    /\ lastSessions[i].name = agents[k].SessionName
    /\ lastSessions[i].paneLines = <<>>
    /\ agents[k].LastChangeTime < clock
    /\ NonSticky(agents[k]) = NoFields

----------------------------------------------------------------------------
(* Properties of the poll loop and of the timers (Spec, SpecTimers) *)

\* C15: a failed list command is handled as a successful poll that lists no
\* session: the merge runs with an empty list, so every agent is removed,
\* the rig order is empty and the counters are zero; the program keeps
\* running and the poll timer is armed, whether the list command failed or
\* listed nothing.
C15_FailedListIsEmptyPoll ==
  [][(MergeStep /\ (pollErr' \/ lastSessions' = <<>>)) =>
       /\ lastSessions' = <<>>
       /\ agents' = <<>>
       /\ rigs' = <<>>
       /\ counts' = ZeroCounts
       /\ parsed' = <<>>
       /\ removed' = {agents[k].SessionName : k \in 1..Len(agents)}
       /\ pollTicks' = pollTicks + 1
       /\ pollCmds' = pollCmds - 1
       /\ ~quit']_vars

\* a failed list command has emptied a collection that held agents, and the
\* poll timer is pending
C15_Witness == pollErr /\ removed # {} /\ agents = <<>> /\ pollTicks = 1

\* C16: at most one poll cycle is in progress: the poll commands that are
\* running and the poll timers that are pending are together at most one,
\* and a key, mouse, resize or blink message neither starts a poll command
\* nor arms a poll timer.
C16_OnePollCycle ==
  /\ [](pollCmds + pollTicks <= 1)
  /\ [][lastMsg' \in {"KeyMsg", "MouseMsg", "WindowSizeMsg", "blinkMsg"} =>
          UNCHANGED <<pollCmds, pollTicks>>]_vars

\* a key was handled after a merge while a poll command was running
C16_Witness ==
  /\ lastMsg = "KeyMsg"
  /\ ~quit
  /\ pollCmds = 1
  /\ pollTicks = 0
  /\ agents # <<>>

\* C17: the blink timer is independent of the poll loop: a blink message can
\* be handled whatever the poll loop is doing; it toggles the phase, adds
\* one to the tick counter, arms the blink timer again and leaves the agents
\* and the counters alone; a poll result or a poll tick leaves the blink
\* timer alone; exactly one blink timer is pending in every state.
C17_BlinkIndependent ==
  /\ [](blinkTicks = 1)
  /\ []((~quit /\ tickNum < MaxTick) => ENABLED BlinkMsg)
  /\ [][(tickNum' # tickNum) =>
          (/\ blinkOn' = ~blinkOn
           /\ tickNum' = tickNum + 1
           /\ blinkTicks' = blinkTicks
           /\ UNCHANGED <<agents, rigs, counts, pollCmds, pollTicks>>)]_vars
  /\ [][(pollCmds' # pollCmds \/ pollTicks' # pollTicks) =>
          UNCHANGED <<blinkOn, tickNum, blinkTicks>>]_vars

\* two blink messages were handled while a poll command was running, after
\* a merge that found an agent
C17_Witness ==
  /\ lastMsg = "blinkMsg"
  /\ tickNum = 2
  /\ ~blinkOn
  /\ pollCmds = 1
  /\ agents # <<>>
  /\ blinkTicks = 1

----------------------------------------------------------------------------
(* Properties of the tool events (SpecTools) *)

\* an event is applied to an agent that is the only one in the collection
\* when it names the agent's session or, failing that, when the last
\* segment of its actor path occurs in the agent's session name
Matches(evt, a) ==
  \/ evt.Session # "" /\ evt.Session = a.SessionName
  \/ evt.Actor # "" /\ Contains(a.SessionName, LastPart(evt.Actor))

MatchingEvents(a) ==
  {i \in 1..Len(recentToolEvents) : Matches(recentToolEvents[i], a)}

LastMatching(a) ==
  recentToolEvents[CHOOSE i \in MatchingEvents(a) : \A j \in MatchingEvents(a) : j <= i]

C19_ClaudeToolFromPane ==
  \A k \in 1..Len(agents) :
    agents[k].AgentType = "claude" => agents[k].CurrentTool = parsed[k].CurrentTool

\* a Claude agent shows the tool of its pane while a recent started event
\* names its session with another tool
C19_Witness ==
  \E k \in 1..Len(agents), i \in 1..Len(recentToolEvents) :
    /\ agents[k].AgentType = "claude"
    /\ agents[k].CurrentTool # ""
    /\ recentToolEvents[i].Session = agents[k].SessionName
    /\ recentToolEvents[i].EventType = "tool_started"
    /\ recentToolEvents[i].Tool # agents[k].CurrentTool
    /\ \A j \in 1..Len(recentToolEvents) : j > i => ~Matches(recentToolEvents[j], agents[k])

\* C20: the event list of a poll holds only tool_started and tool_finished
\* events that are at most 15 s old when the log is read, and an agent's
\* current tool differs from the one its pane gave only through an event
\* of that list: an older event sets or clears nothing.
C20_OnlyRecentToolEvents ==
  /\ \A i \in 1..Len(recentToolEvents) :
       /\ recentToolEvents[i].EventType \in {"tool_started", "tool_finished"}
       /\ clock - recentToolEvents[i].Timestamp <= EventWindow
  /\ \A k \in 1..Len(agents) :
       agents[k].CurrentTool # parsed[k].CurrentTool => MatchingEvents(agents[k]) # {}

\* the log was read 16 s after the agent's started event: the list holds
\* only the event of another session, and the agent has no tool
C20_Witness ==
  /\ clock = 16
  /\ Len(recentToolEvents) = 1
  /\ recentToolEvents[1].Session = "gt-z"
  /\ \E k \in 1..Len(agents) :
       /\ ~isClaudeAgent(agents[k].AgentType)
       /\ agents[k].SessionName = "gt-a"
       /\ agents[k].CurrentTool = ""

\* C24: a tool event that carries a session name is applied to the agent
\* of that session and to no other: the event that decides the current tool
\* of a non-Claude agent either names the agent's session or names no
\* session (the actor fallback).
C24_SessionEventsMatchExactly ==
  \A k \in 1..Len(agents) :
    (~isClaudeAgent(agents[k].AgentType) /\ MatchingEvents(agents[k]) # {}) =>
      LastMatching(agents[k]).Session \in {"", agents[k].SessionName}

----------------------------------------------------------------------------
(* Properties of gt top emit (SpecEmit) *)

\* the flags that the spec requires for an event type
RequiredFlags(eventType) ==
  CASE eventType \in {"patrol_started", "patrol_complete"} -> {"rig"}
    [] eventType \in {"polecat_checked", "polecat_nudged"} -> {"rig", "polecat"}
    [] eventType = "escalation_sent" -> {"rig", "target", "to"}
    [] OTHER -> {}

ChecksFail(a) == ~a.workspace \/ \E f \in RequiredFlags(a.eventType) : a[f] = ""

\* C21: a run of the emit command that finds no workspace, or that lacks a
\* flag required for its event type, returns an error and leaves the event
\* log as it was; a record is appended only by a run whose checks passed.
C21_EmitChecksBeforeWrite ==
  /\ [](ChecksFail(emitArgs) => emitErr # "")
  /\ [][ChecksFail(emitArgs') => eventLog' = eventLog]_vars
  /\ [][eventLog' # eventLog =>
          (~ChecksFail(emitArgs') /\ emitErr' = "" /\ Len(eventLog') = Len(eventLog) + 1)]_vars

\* an escalation without --to was refused after another run had appended
\* a record
C21_Witness ==
  /\ emitArgs.eventType = "escalation_sent"
  /\ emitArgs.workspace
  /\ emitArgs.rig # ""
  /\ emitArgs.target # ""
  /\ emitArgs.to = ""
  /\ emitErr # ""
  /\ Len(eventLog) = 1

----------------------------------------------------------------------------
(* Properties of the parsers (SpecParse) *)

\* the lines of a pane that are no chrome, by position
ContentLines(lines) == {i \in 1..Len(lines) : ~ClaudeFacts(lines)[i].chrome}

\* the lowest n content lines of a pane
Lowest(lines, n) ==
  {i \in ContentLines(lines) : Cardinality({j \in ContentLines(lines) : j > i}) < n}

\* the lowest content line is the given line
EndsWith(lines, line) ==
  \E i \in Lowest(lines, 1) : lines[i] = line

Hits(lines) ==
  {i \in Lowest(lines, ContentWindow) :
     ClaudeFacts(lines)[i].wait # "" \/ ClaudeFacts(lines)[i].status # ""}

\* the first match from the bottom
FirstHit(lines) ==
  ClaudeFacts(lines)[CHOOSE i \in Hits(lines) : \A j \in Hits(lines) : j <= i]

\* a status text with the task name of the status bar appended
WithTask(status, taskName) ==
  IF taskName = "" THEN status
  ELSE IF status = "" THEN taskName
  ELSE status \o " · " \o taskName

TaskOf(lines) == FindTaskName(ClaudeFacts(lines), Len(lines))

\* what the claim allows the parser to leave for a pane
WindowDecides(p, lines) ==
  IF Hits(lines) = {}
    THEN ~p.WaitingForHuman /\ p.WaitingReason = ""
         /\ p.StatusText = WithTask("", TaskOf(lines))
  ELSE IF FirstHit(lines).wait # ""
    THEN p.WaitingForHuman /\ p.WaitingReason = FirstHit(lines).wait
  ELSE ~p.WaitingForHuman /\ p.WaitingReason = ""
       /\ p.StatusText = WithTask(FirstHit(lines).status, TaskOf(lines))

\* C25: the Claude parser decides the waiting flag and the status text by
\* the first line, from the bottom, among the lowest eight content lines
\* that matches: a waiting pattern sets the flag and the reason, otherwise a
\* status line sets the status text; chrome lines are skipped and do not
\* count; a line that matches neither gives no status text, and content
\* lines above the eighth have no effect.
C25_BottomUpWindow ==
  \A k \in 1..Len(agents) :
    agents[k].AgentType = "claude" =>
      WindowDecides(parsed[k], LastPane(lastSessions, agents[k].SessionName))

\* the prompt is the ninth content line from the bottom: no waiting flag
C25_Witness ==
  \E k \in 1..Len(agents) :
    /\ agents[k].AgentType = "claude"
    /\ LastPane(lastSessions, agents[k].SessionName) = <<PermitLine>> \o Noise(8) \o <<"">>
    /\ ~parsed[k].WaitingForHuman
    /\ parsed[k].StatusText = ""

\* C26: whenever the status bar of a Claude pane yields a task name, the
\* status text after the parse ends with that task name: the status line
\* of the pane, a middle dot and the task name, or the task name alone.
C26_TaskNameAppended ==
  \A k \in 1..Len(agents) :
    (/\ agents[k].AgentType = "claude"
     /\ TaskOf(LastPane(lastSessions, agents[k].SessionName)) # "") =>
      /\ HasSuffix(parsed[k].StatusText, TaskOf(LastPane(lastSessions, agents[k].SessionName)))
      /\ \/ parsed[k].StatusText = TaskOf(LastPane(lastSessions, agents[k].SessionName))
         \/ HasSuffix(parsed[k].StatusText,
                      " · " \o TaskOf(LastPane(lastSessions, agents[k].SessionName)))

\* the positions of the last n captured lines
LastLines(lines, n) == {i \in 1..Len(lines) : i > Len(lines) - n}

HardCapShown(lines) ==
  \E i \in 1..Len(lines) :
    \/ ClaudeFacts(lines)[i].hitLimit
    \/ ClaudeFacts(lines)[i].creditLimit
    \/ ClaudeFacts(lines)[i].extraUsage

\* C27: the Claude parser sets the rate-limited flag only when one of the
\* last three captured lines shows the temporary rate-limit signal and no
\* line of the pane shows a hard cap; it never leaves the rate-limited flag
\* and the hard-cap flag both set.
C27_RateLimitWindow ==
  \A k \in 1..Len(agents) :
    (agents[k].AgentType = "claude" /\ parsed[k].RateLimited) =>
      /\ \E i \in LastLines(LastPane(lastSessions, agents[k].SessionName), RateLimitWindow) :
           ClaudeFacts(LastPane(lastSessions, agents[k].SessionName))[i].rateLimit
      /\ ~HardCapShown(LastPane(lastSessions, agents[k].SessionName))
      /\ ~parsed[k].HitLimit

\* the signal stands on the third captured line from the bottom
C27_Witness ==
  \E k \in 1..Len(agents) :
    /\ agents[k].AgentType = "claude"
    /\ LastPane(lastSessions, agents[k].SessionName) = <<RateLine, NoiseLine, "">>
    /\ parsed[k].RateLimited
    /\ ~parsed[k].HitLimit

\* C28: after a parse every text field taken from the pane (status text,
\* current tool, waiting reason, limit reset info) is at most 200
\* characters long.
C28_TextFieldsTruncated ==
  \A k \in 1..Len(agents) :
    /\ Len(parsed[k].StatusText) <= StatusLimit
    /\ Len(parsed[k].CurrentTool) <= StatusLimit
    /\ Len(parsed[k].WaitingReason) <= StatusLimit
    /\ Len(parsed[k].LimitResetInfo) <= StatusLimit

----------------------------------------------------------------------------
(* Properties of the secondary parser (SpecOpenCode) *)

\* the lines of a pane that the secondary parser reads: neither empty nor chrome
ReadLines(lines) ==
  {i \in 1..Len(lines) :
     ~OpenCodeFacts(lines)[i].empty /\ ~OpenCodeFacts(lines)[i].chrome}

\* the signals of the priority order, as sets of line numbers
InFlightLines(lines) == {i \in ReadLines(lines) : OpenCodeFacts(lines)[i].tool # ""}

BareLines(lines) == {i \in ReadLines(lines) : ~OpenCodeFacts(lines)[i].framed}

ActiveSubLines(lines) == {i \in BareLines(lines) : OpenCodeFacts(lines)[i].subTool # ""}

ActiveBashLines(lines) == {i \in BareLines(lines) : OpenCodeFacts(lines)[i].bash}

PendingLines(lines) == {i \in BareLines(lines) : OpenCodeFacts(lines)[i].pending # ""}

SpinnerLines(lines) == {i \in BareLines(lines) : OpenCodeFacts(lines)[i].spinner # ""}

CompletedLines(lines) ==
  {i \in ReadLines(lines) :
     /\ OpenCodeFacts(lines)[i].framed
     /\ OpenCodeFacts(lines)[i].panel.kind \in {"sub", "bash"}}

ElapsedLines(lines) ==
  {i \in ReadLines(lines) :
     OpenCodeFacts(lines)[i].header /\ OpenCodeFacts(lines)[i].elapsed # ""}

\* lines that carry a task description, which the status text prefers
DescLines(lines) ==
  {i \in ReadLines(lines) :
     \/ OpenCodeFacts(lines)[i].framed /\ OpenCodeFacts(lines)[i].panel.kind = "desc"
     \/ ~OpenCodeFacts(lines)[i].framed /\ OpenCodeFacts(lines)[i].toolcall}

\* the facts of the most recent (lowest) line of a signal
MostRecent(lines, S) == OpenCodeFacts(lines)[CHOOSE i \in S : \A j \in S : j <= i]

\* what the priority order allows the parser to leave for a pane
PriorityDecides(p, lines) ==
  IF InFlightLines(lines) # {}
    THEN p.CurrentTool = MostRecent(lines, InFlightLines(lines)).tool
  ELSE IF ActiveSubLines(lines) # {}
    THEN p.CurrentTool = formatSubTool(MostRecent(lines, ActiveSubLines(lines)).subTool)
  ELSE IF ActiveBashLines(lines) # {}
    THEN p.CurrentTool = formatBashTool(MostRecent(lines, ActiveBashLines(lines)).bashCmd)
  ELSE IF PendingLines(lines) # {}
    THEN p.StatusText = MostRecent(lines, PendingLines(lines)).pending
  ELSE IF SpinnerLines(lines) # {}
    THEN p.StatusText = MostRecent(lines, SpinnerLines(lines)).spinner
  ELSE IF CompletedLines(lines) # {}
    THEN p.CurrentTool =
           IF MostRecent(lines, CompletedLines(lines)).panel.kind = "sub"
           THEN formatSubTool(MostRecent(lines, CompletedLines(lines)).panel.value)
           ELSE formatBashTool(MostRecent(lines, CompletedLines(lines)).panel.value)
  ELSE IF ElapsedLines(lines) # {}
    THEN p.CurrentTool = ""
         /\ p.StatusText = MostRecent(lines, ElapsedLines(lines)).elapsed
  ELSE p.CurrentTool = "" /\ p.StatusText = ""

\* C29: in a pane of the secondary dialect the current tool and the status
\* text come from the highest-priority signal present: the in-flight tool,
\* else the unframed sub-tool, else the unframed shell command, else the
\* pending operation, else the spinner, else the most recent framed
\* sub-tool or command, else the elapsed time of the header, else nothing;
\* every level applies whenever its signal is present and no higher one is.
\* (Panes with a task description or a hard cap, which change the status
\* text and the tool afterwards, are left aside.)
C29_PriorityOrder ==
  \A k \in 1..Len(agents) :
    (/\ agents[k].AgentType = "opencode"
     /\ DescLines(LastPane(lastSessions, agents[k].SessionName)) = {}
     /\ ~parsed[k].HitLimit) =>
      PriorityDecides(parsed[k], LastPane(lastSessions, agents[k].SessionName))

----------------------------------------------------------------------------
(* Properties of the counters (SpecCounts) *)

AtLevel(levels) == Cardinality({k \in 1..Len(agents) : agents[k].Level \in levels})

\* C23: after every merge each counter is the number of agents at its
\* level (idle counts Warm and Cool, stuck counts Cold), so the seven
\* counters add up to totalAgents, which is the number of records, none is
\* negative, and a RateLimited agent is counted as nothing else.
C23_CountersMatchLevels ==
  /\ counts.activeCount = AtLevel({LevelActive})
  /\ counts.recentCount = AtLevel({LevelRecent})
  /\ counts.idleCount = AtLevel({LevelWarm, LevelCool})
  /\ counts.stuckCount = AtLevel({LevelCold})
  /\ counts.rateLimitedCount = AtLevel({LevelRateLimited})
  /\ counts.hitLimitCount = AtLevel({LevelHitLimit})
  /\ counts.waitingCount = AtLevel({LevelWaitingForHuman})
  /\ counts.totalAgents = Len(agents)
  /\ counts.activeCount + counts.recentCount + counts.idleCount + counts.stuckCount
       + counts.rateLimitedCount + counts.hitLimitCount + counts.waitingCount
       = counts.totalAgents
  /\ \A f \in DOMAIN counts : counts[f] >= 0

\* two agents: one RateLimited in place of Cold, the other idle
C23_Witness ==
  /\ Len(agents) = 2
  /\ counts.rateLimitedCount = 1
  /\ counts.idleCount = 1
  /\ counts.stuckCount = 0
  /\ \E k \in 1..2 : agents[k].Level = LevelRateLimited /\ clock - agents[k].LastChangeTime >= CoolWindow

----------------------------------------------------------------------------
(* Properties of the identity of a session (SpecNames) *)

\* an identifier of none of the role patterns: no "hq-" prefix, and no
\* "gt-" prefix followed by "dog-" or by a rig, a dash and a rest
Unrecognized(name) ==
  /\ ~HasPrefix(name, "hq-")
  /\ \/ ~HasPrefix(name, "gt-")
     \/ /\ ~HasPrefix(TrimPrefix(name, "gt-"), "dog-")
        /\ ~Contains(TrimPrefix(name, "gt-"), "-")

\* the records of one session, before and after a step, have one identity
SameIdentity ==
  \A j \in 1..Len(agents), k \in 1..Len(agents') :
    agents[j].SessionName = agents'[k].SessionName =>
      /\ agents'[k].Name = agents[j].Name
      /\ agents'[k].Role = agents[j].Role
      /\ agents'[k].Rig = agents[j].Rig
      /\ agents'[k].Icon = agents[j].Icon

----------------------------------------------------------------------------
(* Further properties of the levels (SpecLevels) *)

\* C31: after every merge the waiting flag of a record is set if and only
\* if its level is WaitingForHuman.
C31_FlagIffWaitingLevel ==
  \A k \in 1..Len(agents) :
    agents[k].WaitingForHuman <=> agents[k].Level = LevelWaitingForHuman

\* a prompt inside the debounce: the parser set the flag, the merge cleared it
C31_Witness ==
  \E k \in 1..Len(agents) :
    /\ parsed[k].WaitingForHuman
    /\ ~agents[k].WaitingForHuman
    /\ agents[k].Level # LevelWaitingForHuman

\* C32: a record created in a merge (its session was in no record before
\* the merge) ends that merge with the level Active, or HitLimit when its
\* pane shows a hard cap: never WaitingForHuman, RateLimited, Recent, Warm,
\* Cool or Cold.
C32_CreatedIsActive ==
  [][\A k \in 1..Len(agents') :
       agents'[k].SessionName \notin NamesOf(agents) =>
         agents'[k].Level = IF parsed'[k].HitLimit THEN LevelHitLimit ELSE LevelActive]_vars

\* a poll at the instant 300 meets a session with a prompt and a rate limit
\* in its pane and stamps its record with 300, the timestamp being the one
\* the record was created with: Active
C32_Witness ==
  \E k \in 1..Len(agents) :
    /\ clock = 300
    /\ agents[k].LastChangeTime = 300
    /\ agents[k].CurActivity = agents[k].PrevActivity
    /\ parsed[k].WaitingForHuman
    /\ parsed[k].RateLimited
    /\ agents[k].Level = LevelActive


\* none of the three override flags is set in the record
NoOverride(a) == ~a.WaitingForHuman /\ ~a.RateLimited /\ ~a.HitLimit

\* C33: from one poll to the next, a record whose reported activity
\* timestamp is unchanged and that has no override flag before or after
\* keeps its level or moves to a later one of Active, Recent, Warm, Cool,
\* Cold; it is Active after having been something else only when the
\* timestamp differs.
C33_LevelOnlyAges ==
  [][\A j \in 1..Len(agents), k \in 1..Len(agents') :
       (/\ agents[j].SessionName = agents'[k].SessionName
        /\ NoOverride(agents[j])
        /\ NoOverride(agents'[k]))
       => /\ agents'[k].CurActivity = agents[j].CurActivity =>
               /\ agents[j].Level <= agents'[k].Level
               /\ agents'[k].Level <= LevelCold
          /\ (agents[j].Level # LevelActive /\ agents'[k].Level = LevelActive) =>
               agents'[k].CurActivity # agents[j].CurActivity]_vars

\* a record created at the instant 0 whose timestamp never changed has
\* reached Cold at the instant 300
C33_Witness ==
  \E k \in 1..Len(agents) :
    /\ clock = 300
    /\ agents[k].LastChangeTime = 0
    /\ agents[k].CurActivity = agents[k].PrevActivity
    /\ NoOverride(agents[k])
    /\ agents[k].Level = LevelCold


----------------------------------------------------------------------------
(* Progress of the levels while the polls continue (SpecWaitingFair) *)

\* the last poll found a prompt in the pane of session n
Prompted(n) ==
  \E k \in 1..Len(agents) :
    agents[k].SessionName = n /\ parsed[k].WaitingForHuman

\* the last poll reported another activity timestamp for session n
Changed(n) ==
  \E k \in 1..Len(agents) :
    agents[k].SessionName = n /\ agents[k].CurActivity # agents[k].PrevActivity

LevelOf(n) ==
  {agents[k].Level : k \in {j \in 1..Len(agents) : agents[j].SessionName = n}}

\* C34: a record whose pane shows a prompt more than 5 seconds after its
\* last change has the level WaitingForHuman after that poll; and while
\* polls at later instants remain, a record whose pane shows a prompt
\* reaches the level WaitingForHuman unless the prompt disappears or the
\* timestamp changes first.
C34_PromptLeadsToWaiting ==
  /\ [](\A k \in 1..Len(agents) :
          (parsed[k].WaitingForHuman /\ Elapsed(k) > WaitDebounce) =>
            agents[k].Level = LevelWaitingForHuman)
  /\ \A n \in {"gt-a"} :
       (Prompted(n) /\ \E t \in WaitInstants : t > clock)
         ~> (LevelOf(n) = {LevelWaitingForHuman} \/ ~Prompted(n) \/ Changed(n))

\* a prompt in the pane, the timestamp as it was, more than 5 seconds
\* after the last change: WaitingForHuman
C34_Witness ==
  \E k \in 1..Len(agents) :
    /\ parsed[k].WaitingForHuman
    /\ agents[k].CurActivity = agents[k].PrevActivity
    /\ Elapsed(k) > WaitDebounce
    /\ agents[k].Level = LevelWaitingForHuman


----------------------------------------------------------------------------
(* The pointer state and the collection (SpecTimers) *)

\* C35: the hovered record and the last-clicked record are each nil or a
\* record of the collection.
C35_PointersInCollection ==
  /\ hoveredAgent \in NamesOf(agents) \cup {""}
  /\ lastClickAgent \in NamesOf(agents) \cup {""}


----------------------------------------------------------------------------
(* The outcome of applying the tool events (SpecPairs) *)

\* the collection as the level loop left it in the last merge, before the
\* tool events were applied
BeforeEvents ==
  [k \in 1..Len(agents) |-> [agents[k] EXCEPT !.CurrentTool = parsed[k].CurrentTool]]

\* C36: applying the recent events to the collection has one outcome.
C36_ToolEventsDeterministic ==
  Cardinality(applyToolEvents(BeforeEvents, recentToolEvents)) = 1


----------------------------------------------------------------------------
(* The dialect of a new record (SpecPanes) *)

\* the pane lines of the last poll show a signature of the secondary dialect
Signed(lines) == \E i \in 1..Len(lines) : SignatureTable[lines[i]]

----------------------------------------------------------------------------
(* The lifetime of a tool taken from an event (SpecTools) *)

\* a line of the log that is a tool event the fallback or the session name
\* assigns to record a
LineMatches(l, a) ==
  /\ l.json
  /\ l.type \in {"tool_started", "tool_finished"}
  /\ l.ts # -1
  /\ Matches([Session |-> l.session, Actor |-> l.actor], a)

\* the merge read log: its events of the window are the list of the merge
ReadLog(log) ==
  /\ pollTicks' = pollTicks + 1
  /\ readRecentToolEvents(townRoot, log, clock') = recentToolEvents'

\* the records of the secondary dialects to which the parser gave no tool
NoPaneTool ==
  {k \in 1..Len(agents') :
     ~isClaudeAgent(agents'[k].AgentType) /\ parsed'[k].CurrentTool = ""}

====
